---- MODULE Spec2Model ----
(***************************************************************************)
(* A model of lang_tester's execution engine (src/src/tester.rs): the job  *)
(* run for one test file by test_file (extract, parse, ignore-if) and      *)
(* run_tests (the loop over the commands of test_cmds, the four checks,    *)
(* the rerun-if clauses and the report of the verdict).                    *)
(***************************************************************************)
EXTENDS Integers, Sequences, FiniteSets, TLC

\* ------------------------------------------------------------------------
\* Bounds of the model
\* ------------------------------------------------------------------------
\* The largest value of inner.rerun_at_most that is explored.
MaxRerun == 1
\* The largest number of (name, command) pairs test_cmds returns.
MaxStages == 2

\* ------------------------------------------------------------------------
\* Values
\* ------------------------------------------------------------------------
WILDCARD == "..."

\* Status (the expectation of a block); kind "None" is Option::None.
StSuccess == [kind |-> "Success", i |-> 0]
StError == [kind |-> "Error", i |-> 0]
StSignal == [kind |-> "Signal", i |-> 0]
StInt(n) == [kind |-> "Int", i |-> n]
StNone == [kind |-> "None", i |-> 0]

\* ExitStatus of a child: it exited with a code or was ended by a signal.
Exited(c) == [exited |-> TRUE, n |-> c]
Signaled(s) == [exited |-> FALSE, n |-> s]
ExitStatuses == {Exited(0), Exited(1), Exited(2), Signaled(9)}

\* ExitStatus::success
success(st) == st.exited /\ st.n = 0
\* ExitStatus::signal().is_some()
is_signal(st) == ~st.exited
\* ExitStatus::code() == Some(i)
code_is(st, i) == st.exited /\ st.n = i

\* Captured output and patterns are sequences of lines.
Texts == {<<>>, <<"x">>}
PtnWild == <<WILDCARD>>
PtnX == <<"x">>
PtnInvalid == <<WILDCARD, WILDCARD>>
PtnNone == <<"None">>

\* The names test_cmds and the document use (already lower-cased): the
\* pipeline of a harness, of which test_cmds returns the first commands.
Pipeline == <<"compiler", "linker", "run-time", "checker">>
Names == {Pipeline[k] : k \in 1..MaxStages}

\* The same names as test_cmds or a document may write them.
AsWritten == <<"Compiler", "Linker", "Run-time", "Checker">>

\* A name of a document that no command of the pipeline has.
UnknownName == "unknown"

UpperCase == "ABCDEFGHIJKLMNOPQRSTUVWXYZ"
LowerCase == "abcdefghijklmnopqrstuvwxyz"

\* char::to_lowercase of the one-character string c
LowerChar(c) ==
    IF \E k \in 1..Len(UpperCase) : SubSeq(UpperCase, k, k) = c
    THEN LET k == CHOOSE k \in 1..Len(UpperCase) : SubSeq(UpperCase, k, k) = c
         IN  SubSeq(LowerCase, k, k)
    ELSE c

\* str::to_lowercase
RECURSIVE to_lowercase(_)
to_lowercase(s) ==
    IF s = "" THEN ""
    ELSE LowerChar(SubSeq(s, 1, 1)) \o to_lowercase(SubSeq(s, 2, Len(s)))

\* The names a document can give to its blocks.
DocNames == Names \cup {AsWritten[k] : k \in 1..MaxStages} \cup {UnknownName}

\* TestCmd::default
DefaultTestCmd ==
    [status |-> StSuccess, stdin |-> -1, stderr |-> PtnWild, stdout |-> PtnWild,
     rerun_if_status |-> StNone, rerun_if_stderr |-> PtnNone,
     rerun_if_stdout |-> PtnNone, args |-> <<>>, env |-> {}]

\* The blocks parse_tests can produce that are explored: the default with one
\* of the keys status, stdin, stderr and stdout set, and the default or a
\* block with a stdout pattern with any of the rerun-if keys set.
Expectations ==
    {[DefaultTestCmd EXCEPT !.status = v] : v \in {StError, StSignal, StInt(1)}}
    \cup {[DefaultTestCmd EXCEPT !.stdin = 1]}
    \cup {[DefaultTestCmd EXCEPT !.stderr = v] : v \in {PtnX, PtnInvalid}}
    \cup {[DefaultTestCmd EXCEPT !.stdout = v] : v \in {PtnX, PtnInvalid}}
    \cup {DefaultTestCmd}

WithRerunIfs(t) ==
    {[t EXCEPT !.rerun_if_status = a, !.rerun_if_stderr = b, !.rerun_if_stdout = c] :
        a \in {StNone, StError}, b \in {PtnNone, PtnX, PtnInvalid},
        c \in {PtnNone, PtnX}}

TestCmds ==
    Expectations \cup WithRerunIfs(DefaultTestCmd)
    \cup WithRerunIfs([DefaultTestCmd EXCEPT !.stdout = PtnX])

\* The effect of one key of a block on the TestCmd being built; an env-var is
\* a pair <<key, string>> and replaces the variable of the same key.
SetKeyAlsoStderr(t, key, val) ==
    CASE key = "status" -> [t EXCEPT !.status = val]
      [] key = "rerun-if-status" -> [t EXCEPT !.rerun_if_status = val]
      [] key = "stdin" -> [t EXCEPT !.stdin = val]
      [] key = "stderr" -> [t EXCEPT !.stderr = val]
      [] key = "stdout" -> [t EXCEPT !.stdout = val, !.stderr = val]
      [] key = "rerun-if-stderr" -> [t EXCEPT !.rerun_if_stderr = val]
      [] key = "rerun-if-stdout" -> [t EXCEPT !.rerun_if_stdout = val]
      [] key = "exec-arg" -> [t EXCEPT !.args = Append(@, val)]
      [] key = "env-var" ->
            [t EXCEPT !.env = {e \in @ : e[1] # val[1]} \cup {val}]

SetKey(t, key, val) ==
    CASE key = "status" -> [t EXCEPT !.status = val]
      [] key = "rerun-if-status" -> [t EXCEPT !.rerun_if_status = val]
      [] key = "stdin" -> [t EXCEPT !.stdin = val]
      [] key = "stderr" -> [t EXCEPT !.stderr = val]
      [] key = "stdout" -> [t EXCEPT !.stdout = val]
      [] key = "rerun-if-stderr" -> [t EXCEPT !.rerun_if_stderr = val]
      [] key = "rerun-if-stdout" -> [t EXCEPT !.rerun_if_stdout = val]
      [] key = "exec-arg" -> [t EXCEPT !.args = Append(@, val)]
      [] key = "env-var" ->
            [t EXCEPT !.env = {e \in @ : e[1] # val[1]} \cup {val}]

\* The loop of parse_tests over the keys of a block, a sequence of
\* <<key, value>>, started from TestCmd::default.
RECURSIVE ParseBlock(_, _)
ParseBlock(kvs, t) ==
    IF kvs = <<>> THEN t
    ELSE ParseBlock(Tail(kvs), SetKey(t, Head(kvs)[1], Head(kvs)[2]))

\* A block that parse_tests turns into the TestCmd t: one key for each
\* expectation of t that is not the default.
DocOf(t) ==
    (IF t.status # StSuccess THEN << <<"status", t.status>> >> ELSE <<>>)
    \o (IF t.stdin # -1 THEN << <<"stdin", t.stdin>> >> ELSE <<>>)
    \o (IF t.stderr # PtnWild THEN << <<"stderr", t.stderr>> >> ELSE <<>>)
    \o (IF t.stdout # PtnWild THEN << <<"stdout", t.stdout>> >> ELSE <<>>)
    \o (IF t.rerun_if_status # StNone
        THEN << <<"rerun-if-status", t.rerun_if_status>> >> ELSE <<>>)
    \o (IF t.rerun_if_stderr # PtnNone
        THEN << <<"rerun-if-stderr", t.rerun_if_stderr>> >> ELSE <<>>)
    \o (IF t.rerun_if_stdout # PtnNone
        THEN << <<"rerun-if-stdout", t.rerun_if_stdout>> >> ELSE <<>>)

\* The blocks of the documents that are explored: those of TestCmds, a block
\* that writes the default status, and a block with an argument and two
\* settings of one environment variable.
Blocks ==
    {DocOf(t) : t \in TestCmds}
    \cup {<< <<"status", StSuccess>> >>,
          << <<"exec-arg", "-O">>, <<"env-var", <<"K", "v">> >>,
             <<"env-var", <<"K", "w">> >> >>}

\* Option<String> of TestFailure.stderr / stdout
OptNone == [kind |-> "None", text |-> <<>>]
OptText(t) == [kind |-> "Text", text |-> t]
OptFMError == [kind |-> "FM error", text |-> <<>>]

\* Option<FMatchError>
MatchNone == [kind |-> "None", ptn |-> <<>>, text |-> <<>>]
MatchErr(p, t) == [kind |-> "FMatchError", ptn |-> p, text |-> t]

\* The TestFailure run_tests starts from.
EmptyFailure ==
    [status |-> "None", stdin_remaining |-> 0, stderr |-> OptNone,
     stderr_match |-> MatchNone, stdout |-> OptNone, stdout_match |-> MatchNone]

\* The value of last before the first run: no command has index 0.
NoRun == [stage |-> 0, expected |-> StSuccess, status |-> Exited(0),
          stdin_remaining |-> 0, stderr |-> <<>>, stdout |-> <<>>]

\* ------------------------------------------------------------------------
\* The fuzzy matcher as run_tests uses it
\* ------------------------------------------------------------------------
\* FMBuilder::build: a pattern with two consecutive wildcard lines is an error.
FMBuildOk(ptn) ==
    \A k \in 1..(Len(ptn) - 1) : ~(ptn[k] = WILDCARD /\ ptn[k + 1] = WILDCARD)

RECURSIVE FMMatchFrom(_, _, _, _)
FMMatchFrom(ptn, text, pi, ti) ==
    IF pi > Len(ptn) THEN ti > Len(text)
    ELSE IF ptn[pi] = WILDCARD
         THEN IF pi = Len(ptn) THEN TRUE
              ELSE \E k \in ti..Len(text) :
                      /\ text[k] = ptn[pi + 1]
                      /\ \A j \in ti..(k - 1) : text[j] # ptn[pi + 1]
                      /\ FMMatchFrom(ptn, text, pi + 2, k + 1)
         ELSE /\ ti <= Len(text)
              /\ ptn[pi] = text[ti]
              /\ FMMatchFrom(ptn, text, pi + 1, ti + 1)

\* FMatcher::matches(..).is_ok()
FMMatches(ptn, text) == FMMatchFrom(ptn, text, 1, 1)

\* ------------------------------------------------------------------------
\* The decisions of run_tests
\* ------------------------------------------------------------------------
PassStatusNoNegation(expected, st) ==
    CASE expected.kind = "Success" -> success(st)
      [] expected.kind = "Error" -> success(st)
      [] expected.kind = "Signal" -> is_signal(st)
      [] expected.kind = "Int" -> code_is(st, expected.i)

PassStatusLax(expected, st) ==
    CASE expected.kind = "Success" -> TRUE
      [] expected.kind = "Error" -> ~success(st)
      [] expected.kind = "Signal" -> is_signal(st)
      [] expected.kind = "Int" -> code_is(st, expected.i)

\* pass_status
PassStatus(expected, st) ==
    CASE expected.kind = "Success" -> success(st)
      [] expected.kind = "Error" -> ~success(st)
      [] expected.kind = "Signal" -> is_signal(st)
      [] expected.kind = "Int" -> code_is(st, expected.i)

\* The condition of the four checks.
AllChecksPass(t, out) ==
    /\ PassStatus(t.status, out.status)
    /\ out.stdin_remaining = 0
    /\ FMMatches(t.stderr, out.stderr)
    /\ FMMatches(t.stdout, out.stdout)

RerunCountStuck(r) == r

\* rerun += 1
RerunCount(r) == r + 1

RerunAllowedOnceMore(r, at_most) == r <= at_most + 1

\* rerun <= inner.rerun_at_most
RerunAllowed(r, at_most) == r <= at_most

RerunIfWithoutStdout(t, out) ==
    IF t.rerun_if_status.kind # "None" /\ PassStatus(t.rerun_if_status, out.status)
    THEN "continue"
    ELSE IF t.rerun_if_stderr # PtnNone /\ ~FMBuildOk(t.rerun_if_stderr)
    THEN "fm_stderr"
    ELSE IF t.rerun_if_stderr # PtnNone /\ FMMatches(t.rerun_if_stderr, out.stderr)
    THEN "continue"
    ELSE "no"

\* The rerun-if clauses, consulted in the order status, stderr, stdout:
\* "continue", "fm_stderr", "fm_stdout" (a pattern that does not build) or "no".
RerunIf(t, out) ==
    IF t.rerun_if_status.kind # "None" /\ PassStatus(t.rerun_if_status, out.status)
    THEN "continue"
    ELSE IF t.rerun_if_stderr # PtnNone /\ ~FMBuildOk(t.rerun_if_stderr)
    THEN "fm_stderr"
    ELSE IF t.rerun_if_stderr # PtnNone /\ FMMatches(t.rerun_if_stderr, out.stderr)
    THEN "continue"
    ELSE IF t.rerun_if_stdout # PtnNone /\ ~FMBuildOk(t.rerun_if_stdout)
    THEN "fm_stdout"
    ELSE IF t.rerun_if_stdout # PtnNone /\ FMMatches(t.rerun_if_stdout, out.stdout)
    THEN "continue"
    ELSE "no"

\* failure.status of a failed run
FailureStatus(expected, st) ==
    CASE expected.kind \in {"Success", "Error"} ->
            IF success(st) THEN "Success"
            ELSE IF ~st.exited THEN "Exited due to signal: " \o ToString(st.n)
            ELSE "Error"
      [] expected.kind = "Signal" -> "Exit was not due to signal"
      [] expected.kind = "Int" ->
            IF st.exited THEN ToString(st.n)
            ELSE "Exited due to signal: " \o ToString(st.n)

\* A variant of FailureOf that fills in the failed matches and nothing else.
FailureOfMatchesOnly(f, t, out) ==
    [f EXCEPT
        !.stderr_match = IF ~FMMatches(t.stderr, out.stderr)
                         THEN MatchErr(t.stderr, out.stderr) ELSE @,
        !.stdout_match = IF ~FMMatches(t.stdout, out.stdout)
                         THEN MatchErr(t.stdout, out.stdout) ELSE @]

\* The TestFailure of a failed run, filled in from f.
FailureOf(f, t, out) ==
    LET ok_err == FMMatches(t.stderr, out.stderr)
        ok_out == FMMatches(t.stdout, out.stdout)
    IN  [status |-> FailureStatus(t.status, out.status),
         stdin_remaining |-> out.stdin_remaining,
         stderr |-> IF ~ok_err \/ f.stderr.kind = "None"
                    THEN OptText(out.stderr) ELSE f.stderr,
         stderr_match |-> IF ~ok_err THEN MatchErr(t.stderr, out.stderr)
                          ELSE f.stderr_match,
         stdout |-> IF ~ok_out \/ f.stdout.kind = "None"
                    THEN OptText(out.stdout) ELSE f.stdout,
         stdout_match |-> IF ~ok_out THEN MatchErr(t.stdout, out.stdout)
                          ELSE f.stdout_match]

BailAfterPassNever(st, meant_to_error) == FALSE

BailAfterPassUnexpected(st, meant_to_error) == ~success(st) /\ ~meant_to_error

\* if !status.success() && meant_to_error { break 'a; }
BailAfterPass(st, meant_to_error) == ~success(st) /\ meant_to_error

IgnoreDecisionNoMode(mode_ignored, ignore) == ignore

\* (inner.ignored && !ignore) || (!inner.ignored && ignore)
IgnoreDecision(mode_ignored, ignore) ==
    (mode_ignored /\ ~ignore) \/ (~mode_ignored /\ ignore)

TestStrIsEmptyNever(s) == FALSE

\* test_str.is_empty()
TestStrIsEmpty(s) == s = "empty"

NamesWithoutCmdUnchecked(pairs, names) == {}

\* check_names: the names of the document that no command has.
NamesWithoutCmd(pairs, names) == names \ {pairs[k] : k \in 1..Len(pairs)}

\* ------------------------------------------------------------------------
\* State
\* ------------------------------------------------------------------------
VARIABLES
    ignored,        \* inner.ignored: only the ignored tests are run
    rerun_at_most,  \* inner.rerun_at_most
    pc,             \* where the job of the file is
    test_str,       \* what test_extract returned: "empty" or "text" ("panic")
    ignore_if,      \* tests.ignore_if is Some
    ignore_cmd,     \* the end of the ignore-if shell command
    test_names,     \* the keys of tests.tests
    cmd_pairs,      \* the names of the pairs test_cmds returned
    stage,          \* the index in cmd_pairs of the command of the loop
    test,           \* the TestCmd of the command
    rerun,          \* the counter rerun of the command
    failure,        \* the TestFailure of run_tests
    failures,       \* the shared list of failures
    num_ignored,    \* the shared counter of ignored files
    verdict,        \* what was written after the name of the test
    last,           \* the result of the last run_cmd (what it had when it
                    \* ended fatally)
    block,          \* the keys of the block of the command in the document
    spawned,        \* per index of cmd_pairs, the processes spawned
    cmds_calls      \* the calls of test_cmds

vars == <<ignored, rerun_at_most, pc, test_str, ignore_if, ignore_cmd, test_names,
          cmd_pairs, stage, test, rerun, failure, failures, num_ignored, verdict,
          last, spawned, cmds_calls, block>>

\* The variables of run and of the pool of test_file.
VARIABLES
    pool_pc,        \* where the main thread is in run and test_file
    path,           \* the index of the path the main thread is at
    test_files,     \* the paths test_files returned
    test_threads,   \* inner.test_threads
    scheduled,      \* the paths handed to pool.execute
    queue,          \* the jobs of the pool that no worker has taken
    job,            \* per worker, its job: a path and where the job is
    verdicts,       \* per path, the verdicts written after its name
    panicked,       \* the paths for which a callback panicked, and which
    summary,        \* the counts of the last line of pp_failures
    stderr_lock,    \* the worker that holds the lock of stderr, 0 for none
    failures_lock,  \* the worker that holds the mutex of failures, 0 for none
    console         \* what was written to stderr: per piece, the path and
                    \* "name" or the verdict

\* The variables of match_vec.
VARIABLES
    plines,         \* the lines of the pattern
    str,            \* the text s
    slines,         \* the lines of the text
    pi,             \* the index in plines (from 0, as in the source)
    si,             \* the index in slines
    m_pc,           \* where match_vec is
    matched         \* what match_vec returned

\* The variables of parse_tests and key_multiline_val.
VARIABLES
    comment_prefix, \* inner.comment_prefix: <<>> for None, <<cp>> for Some(cp)
    test_text,      \* the text test_extract returned
    parse_pc,       \* which of the two functions was called
    kmv,            \* what key_multiline_val returned
    tests           \* what parse_tests returned

\* The variables of run_cmd and of the process it spawns.
VARIABLES
    stdin_len,      \* test.stdin: the number of its bytes, -1 for None
    stdin_off,      \* the bytes of it written so far
    statuses,       \* per file: 0, STATUS_EOF or STATUS_ERR
    pump_pc,        \* where run_cmd is
    warnings,       \* the warnings printed so far
    cap_stdout,     \* the bytes read from stdout
    closes,         \* per file: the calls of close
    child,          \* the process: what it does and which ends it has open
    pipe,           \* the bytes in the pipe of stdin that were not read
    out_buf,        \* the bytes in the pipe of stdout that were not read
    out_stream      \* the bytes the child has yet to write to its stdout

poolOnly == <<pool_pc, path, test_files, test_threads, scheduled, queue, job,
              verdicts, panicked, summary, stderr_lock, failures_lock,
              console>>

matchOnly == <<plines, str, slines, pi, si, m_pc, matched>>

parseOnly == <<comment_prefix, test_text, parse_pc, kmv, tests>>

pumpOnly == <<stdin_len, stdin_off, statuses, pump_pc, warnings, cap_stdout,
              closes, child, pipe, out_buf, out_stream>>

jobOnly == <<ignored, rerun_at_most, pc, test_str, ignore_if, ignore_cmd,
             test_names, cmd_pairs, stage, test, rerun, failure, verdict, last,
             spawned, cmds_calls, block>>

\* A worker without a job.
NoJob == [file |-> 0, pc |-> "idle", out |-> ""]

NoSummary == [passed |-> -1, failed |-> -1, ignored |-> -1, result |-> "none"]

\* No run of the tester is going on.
NoPool ==
    /\ pool_pc = "none"
    /\ path = 0
    /\ test_files = <<>>
    /\ test_threads = 0
    /\ scheduled = {}
    /\ queue = <<>>
    /\ job = <<>>
    /\ verdicts = <<>>
    /\ panicked = {}
    /\ summary = NoSummary
    /\ stderr_lock = 0
    /\ failures_lock = 0
    /\ console = <<>>

\* No call of match_vec is going on.
NoMatch ==
    /\ plines = <<>>
    /\ str = ""
    /\ slines = <<>>
    /\ pi = 0
    /\ si = 0
    /\ m_pc = "none"
    /\ matched = "none"

\* What a call that has not been made has returned.
NoKmv == [res |-> "none", end |-> 0, key |-> "", val |-> <<>>]
NoTests == [res |-> "none", why |-> "", ignore_if |-> <<>>, tests |-> <<>>]

\* No call of the parser is going on.
NoParse ==
    /\ comment_prefix = <<>>
    /\ test_text = ""
    /\ parse_pc = "none"
    /\ kmv = NoKmv
    /\ tests = NoTests

\* No call of run_cmd is going on.
NoPump ==
    /\ stdin_len = -1
    /\ stdin_off = 0
    /\ statuses = <<0, 0, 0>>
    /\ pump_pc = "none"
    /\ warnings = 0
    /\ cap_stdout = <<>>
    /\ closes = <<0, 0, 0>>
    /\ child = <<>>
    /\ pipe = 0
    /\ out_buf = <<>>
    /\ out_stream = <<>>

\* No test file is being run.
NoFile ==
    /\ failures = <<>>
    /\ num_ignored = 0
    /\ ignored = FALSE /\ rerun_at_most = 0 /\ pc = "none" /\ test_str = "unknown"
    /\ ignore_if = FALSE /\ ignore_cmd = "not run" /\ test_names = {}
    /\ cmd_pairs = <<>> /\ stage = 0 /\ test = DefaultTestCmd /\ rerun = 0
    /\ failure = EmptyFailure /\ verdict = "none" /\ last = NoRun
    /\ spawned = <<>> /\ cmds_calls = 0 /\ block = <<>>

Stages == 1..MaxStages

\* What test_cmds can return: the first commands of the pipeline.
CmdPairs == {SubSeq(Pipeline, 1, n) : n \in 1..MaxStages}

\* The same with the names as test_cmds wrote them.
RawCmdPairs == CmdPairs \cup {SubSeq(AsWritten, 1, n) : n \in 1..MaxStages}

Init ==
    /\ ignored \in BOOLEAN
    /\ rerun_at_most \in 0..MaxRerun
    /\ pc = "start"
    /\ test_str = "unknown"
    /\ ignore_if = FALSE
    /\ ignore_cmd = "not run"
    /\ test_names = {}
    /\ cmd_pairs = <<>>
    /\ stage = 0
    /\ test = DefaultTestCmd
    /\ rerun = 0
    /\ failure = EmptyFailure
    /\ failures = <<>>
    /\ num_ignored = 0
    /\ verdict = "none"
    /\ last = NoRun
    /\ spawned = [s \in Stages |-> 0]
    /\ cmds_calls = 0
    /\ block = <<>>
    /\ NoPool
    /\ NoMatch
    /\ NoParse
    /\ NoPump

\* ------------------------------------------------------------------------
\* test_file: the job of one test file
\* ------------------------------------------------------------------------
\* write_ignored followed by num_ignored.fetch_add(1)
Ignore ==
    /\ verdict' = "ignored"
    /\ num_ignored' = num_ignored + 1
    /\ pc' = "ignored"

\* The call of test_extract: it panics, or returns an empty or a non-empty string.
TestExtract ==
    /\ pc = "start"
    /\ \E s \in {"panic", "empty", "text"} :
          /\ test_str' = s
          /\ IF s = "panic"
             THEN /\ failures' = Append(failures, EmptyFailure)
                  /\ pc' = "returned"
                  /\ UNCHANGED <<verdict, num_ignored>>
             ELSE IF TestStrIsEmpty(s)
             THEN Ignore /\ UNCHANGED failures
             ELSE /\ pc' = "extracted"
                  /\ UNCHANGED <<failures, verdict, num_ignored>>
    /\ UNCHANGED <<ignored, rerun_at_most, ignore_if, ignore_cmd, test_names,
                   cmd_pairs, stage, test, rerun, failure, last, spawned,
                   cmds_calls, block>>
    /\ UNCHANGED <<poolOnly, matchOnly, parseOnly, pumpOnly>>

\* The call of parse_tests: a fatal error, or a document with or without an
\* ignore-if and with a block for some names.
ParseTests ==
    /\ pc = "extracted"
    /\ \/ /\ pc' = "fatal"
          /\ UNCHANGED <<ignore_if, test_names>>
       \/ \E doc \in SUBSET DocNames :
             IF \E a, b \in doc : a # b /\ to_lowercase(a) = to_lowercase(b)
             THEN /\ pc' = "fatal"
                  /\ UNCHANGED <<ignore_if, test_names>>
             ELSE /\ ignore_if' \in BOOLEAN
                  /\ test_names' = {to_lowercase(n) : n \in doc}
                  /\ pc' = "parsed"
    /\ UNCHANGED <<ignored, rerun_at_most, test_str, ignore_cmd, cmd_pairs, stage,
                   test, rerun, failure, failures, num_ignored, verdict, last,
                   spawned, cmds_calls, block>>
    /\ UNCHANGED <<poolOnly, matchOnly, parseOnly, pumpOnly>>

\* The ignore-if shell command, if there is one, and the decision to ignore.
IgnoreIf ==
    /\ pc = "parsed"
    /\ \E r \in IF ignore_if THEN {"success", "failure", "could not run"}
                ELSE {"not run"} :
          /\ ignore_cmd' = r
          /\ IF r = "could not run"
             THEN pc' = "fatal" /\ UNCHANGED <<verdict, num_ignored>>
             ELSE IF IgnoreDecision(ignored, r = "success")
             THEN Ignore
             ELSE pc' = "run_tests" /\ UNCHANGED <<verdict, num_ignored>>
    /\ UNCHANGED <<ignored, rerun_at_most, test_str, ignore_if, test_names,
                   cmd_pairs, stage, test, rerun, failure, failures, last, spawned,
                   cmds_calls, block>>
    /\ UNCHANGED <<poolOnly, matchOnly, parseOnly, pumpOnly>>

\* ------------------------------------------------------------------------
\* run_tests
\* ------------------------------------------------------------------------
\* The call of test_cmds (it may panic) and check_names.
TestCmdsCall ==
    /\ pc = "run_tests"
    /\ cmds_calls' = cmds_calls + 1
    /\ \/ /\ failures' = Append(failures, failure)
          /\ pc' = "returned"
          /\ UNCHANGED <<cmd_pairs, stage>>
       \/ \E raw \in RawCmdPairs :
             LET p == [k \in 1..Len(raw) |-> to_lowercase(raw[k])]
             IN
             /\ cmd_pairs' = p
             /\ IF NamesWithoutCmd(p, test_names) # {}
                THEN pc' = "fatal" /\ UNCHANGED stage
                ELSE pc' = "begin" /\ stage' = 1
             /\ UNCHANGED failures
    /\ UNCHANGED <<ignored, rerun_at_most, test_str, ignore_if, ignore_cmd,
                   test_names, test, rerun, failure, num_ignored, verdict, last,
                   spawned, block>>
    /\ UNCHANGED <<poolOnly, matchOnly, parseOnly, pumpOnly>>

\* tests.get(&cmd_name).unwrap_or(&default_test), where b is the block the
\* document has under the name, if it has one.
TestsGet(name, b) ==
    IF name \in test_names THEN ParseBlock(b, DefaultTestCmd) ELSE DefaultTestCmd

\* The start of the loop of a command: its block is looked up, rerun is 0.
BeginStage ==
    /\ pc = "begin"
    /\ \E b \in IF cmd_pairs[stage] \in test_names THEN Blocks ELSE {<<>>} :
          /\ block' = b
          /\ test' = TestsGet(cmd_pairs[stage], b)
    /\ rerun' = 0
    /\ pc' = "loop"
    /\ UNCHANGED <<ignored, rerun_at_most, test_str, ignore_if, ignore_cmd,
                   test_names, cmd_pairs, stage, failure, failures, num_ignored,
                   verdict, last, spawned, cmds_calls>>
    /\ UNCHANGED <<poolOnly, matchOnly, parseOnly, pumpOnly>>

\* What run_cmd returns when it returns: it ends fatally when the child left
\* bytes of stdin unconsumed (off < t.stdin), whether the child closed its
\* stdin (an error of the pipe) or the pipe hung up.
RunCmdResult(t, st, off, err, out) ==
    [stage |-> stage, expected |-> t.status, status |-> st,
     stdin_remaining |-> IF t.stdin = -1 THEN 0 ELSE t.stdin - off,
     stderr |-> err, stdout |-> out]

\* One iteration of the loop of a command: run_cmd, the four checks, the
\* rerun-if clauses, and what follows.
RunIteration ==
    /\ pc = "loop"
    /\ \E t \in {test}, st \in ExitStatuses, err \in Texts, out \in Texts,
          fm_panic \in BOOLEAN :
       \E off \in IF t.stdin = -1 THEN {0} ELSE 0..t.stdin :
          LET r1 == RerunCount(rerun)
              res == RunCmdResult(t, st, off, err, out)
              fm_error(f) ==
                  /\ failure' = f
                  /\ pc' = "report"
                  /\ UNCHANGED <<failures, stage>>
                  /\ rerun' = r1
          IN  /\ spawned' = [spawned EXCEPT ![stage] = @ + 1]
              /\ IF t.stdin # -1 /\ off < t.stdin
                 THEN /\ pc' = "fatal"
                      /\ rerun' = r1
                      /\ last' = res
                      /\ UNCHANGED <<failure, failures, stage>>
                 ELSE /\ last' = res
                      /\ IF fm_panic
                         THEN /\ failures' = Append(failures, failure)
                              /\ pc' = "returned"
                              /\ rerun' = r1
                              /\ UNCHANGED <<failure, stage>>
                         ELSE IF ~FMBuildOk(t.stderr)
                         THEN fm_error([failure EXCEPT !.stderr = OptFMError])
                         ELSE IF ~FMBuildOk(t.stdout)
                         THEN fm_error([failure EXCEPT !.stdout = OptFMError])
                         ELSE IF ~AllChecksPass(t, res)
                         THEN IF RerunAllowed(r1, rerun_at_most)
                                 /\ RerunIf(t, res) = "continue"
                              THEN /\ rerun' = r1
                                   /\ UNCHANGED <<pc, failure, failures, stage>>
                              ELSE IF RerunAllowed(r1, rerun_at_most)
                                      /\ RerunIf(t, res) = "fm_stderr"
                              THEN fm_error([failure EXCEPT !.stderr = OptFMError])
                              ELSE IF RerunAllowed(r1, rerun_at_most)
                                      /\ RerunIf(t, res) = "fm_stdout"
                              THEN fm_error([failure EXCEPT !.stdout = OptFMError])
                              ELSE fm_error(FailureOf(failure, t, res))
                         ELSE IF BailAfterPass(st, t.status.kind = "Error")
                                 \/ stage = Len(cmd_pairs)
                         THEN /\ pc' = "report"
                              /\ rerun' = r1
                              /\ UNCHANGED <<failure, failures, stage>>
                         ELSE /\ stage' = stage + 1
                              /\ pc' = "begin"
                              /\ rerun' = r1
                              /\ UNCHANGED <<failure, failures>>
    /\ UNCHANGED <<test, ignored, rerun_at_most, test_str, ignore_if, ignore_cmd,
                   test_names, cmd_pairs, num_ignored, verdict, cmds_calls, block>>
    /\ UNCHANGED <<poolOnly, matchOnly, parseOnly, pumpOnly>>

\* The end of run_tests: the verdict, and the failure pushed if there is one.
Report ==
    /\ pc = "report"
    /\ IF failure # EmptyFailure
       THEN /\ failures' = Append(failures, failure)
            /\ verdict' = "FAILED"
       ELSE /\ verdict' = "ok"
            /\ UNCHANGED failures
    /\ pc' = "done"
    /\ UNCHANGED <<ignored, rerun_at_most, test_str, ignore_if, ignore_cmd,
                   test_names, cmd_pairs, stage, test, rerun, failure, num_ignored,
                   last, spawned, cmds_calls, block>>
    /\ UNCHANGED <<poolOnly, matchOnly, parseOnly, pumpOnly>>

Next ==
    \/ TestExtract
    \/ ParseTests
    \/ IgnoreIf
    \/ TestCmdsCall
    \/ BeginStage
    \/ RunIteration
    \/ Report

Spec == Init /\ [][Next]_vars

\* ------------------------------------------------------------------------
\* run, test_files and the pool of test_file
\* ------------------------------------------------------------------------
\* The paths of the walk of test_dir.
MaxPaths == 2
\* The largest inner.test_threads that is explored.
MaxThreads == 2

Paths == 1..MaxPaths
Workers == 1..MaxThreads

\* The TestFailure of a file one of whose runs failed a check.
SomeFailure == [EmptyFailure EXCEPT !.status = "Error"]

PoolInit ==
    /\ pool_pc = "filter"
    /\ path = 1
    /\ test_files = <<>>
    /\ test_threads \in Workers
    /\ scheduled = {}
    /\ queue = <<>>
    /\ job = [w \in Workers |-> NoJob]
    /\ verdicts = [f \in Paths |-> <<>>]
    /\ panicked = {}
    /\ summary = NoSummary
    /\ stderr_lock = 0
    /\ failures_lock = 0
    /\ console = <<>>
    /\ failures = <<>>
    /\ num_ignored = 0
    /\ ignored = FALSE /\ rerun_at_most = 0 /\ pc = "none" /\ test_str = "unknown"
    /\ ignore_if = FALSE /\ ignore_cmd = "not run" /\ test_names = {}
    /\ cmd_pairs = <<>> /\ stage = 0 /\ test = DefaultTestCmd /\ rerun = 0
    /\ failure = EmptyFailure /\ verdict = "none" /\ last = NoRun
    /\ spawned = <<>> /\ cmds_calls = 0 /\ block = <<>>
    /\ NoMatch
    /\ NoParse
    /\ NoPump

\* if failures.lock().unwrap().is_empty() { test_file(..) } else { 0 }
RunsTestsAlways(fs) == TRUE

RunsTests(fs) == fs = <<>>

\* test_files: test_path_filter on one path of the walk; it says that the path
\* is a test file or that it is not, or it panics. After the last path run
\* calls test_file, unless a failure was recorded.
PoolFilter ==
    /\ pool_pc = "filter"
    /\ \E r \in {"test", "other", "panic"} :
          LET fs == IF r = "panic" THEN Append(failures, <<path, EmptyFailure>>)
                    ELSE failures
          IN  /\ failures' = fs
              /\ test_files' = IF r = "test" THEN Append(test_files, path)
                                ELSE test_files
              /\ panicked' = IF r = "panic" THEN panicked \cup {<<path, "filter">>}
                              ELSE panicked
              /\ IF path < MaxPaths
                 THEN path' = path + 1 /\ UNCHANGED pool_pc
                 ELSE /\ path' = 1
                      /\ pool_pc' = IF RunsTests(fs) THEN "execute" ELSE "summary"
    /\ UNCHANGED <<test_threads, scheduled, queue, job, verdicts, summary,
                   num_ignored>>
    /\ UNCHANGED <<stderr_lock, failures_lock, console>>
    /\ UNCHANGED <<jobOnly, matchOnly, parseOnly, pumpOnly>>

\* test_file: the loop of pool.execute over test_files.
PoolExecute ==
    /\ pool_pc = "execute"
    /\ IF path <= Len(test_files)
       THEN /\ queue' = Append(queue, test_files[path])
            /\ scheduled' = scheduled \cup {test_files[path]}
            /\ path' = path + 1
            /\ UNCHANGED pool_pc
       ELSE /\ pool_pc' = "join"
            /\ UNCHANGED <<queue, scheduled, path>>
    /\ UNCHANGED <<test_files, test_threads, job, verdicts, panicked, summary,
                   failures, num_ignored>>
    /\ UNCHANGED <<stderr_lock, failures_lock, console>>
    /\ UNCHANGED <<jobOnly, matchOnly, parseOnly, pumpOnly>>

\* A worker of the pool is alive: the process has not ended.
Alive(w) == pool_pc \in {"execute", "join"} /\ w <= test_threads

push_replace(fs, e) == <<e>>

\* failures.lock().unwrap().push((test_fname, failure))
push(fs, e) == Append(fs, e)

\* A worker without a job takes the first job of the queue.
JobTake(w) ==
    /\ Alive(w)
    /\ job[w] = NoJob
    /\ queue # <<>>
    /\ job' = [job EXCEPT ![w] = [file |-> Head(queue), pc |-> "extract", out |-> ""]]
    /\ queue' = Tail(queue)
    /\ UNCHANGED <<pool_pc, path, test_files, test_threads, scheduled, verdicts,
                   panicked, summary, failures, num_ignored>>
    /\ UNCHANGED <<stderr_lock, failures_lock, console>>
    /\ UNCHANGED <<jobOnly, matchOnly, parseOnly, pumpOnly>>

\* The job of a path up to the end of test_extract: with one thread the name
\* is written first; a panic is caught and is to be pushed as a failure with
\* nothing in it, an empty string makes the file ignored.
JobExtract(w) ==
    /\ Alive(w)
    /\ job[w].pc = "extract"
    /\ LET f == job[w].file
       IN /\ console' = IF test_threads = 1 THEN Append(console, <<f, "name">>)
                         ELSE console
          /\ \E s \in {"panic", "empty", "text"} :
                IF s = "panic"
                THEN /\ panicked' = panicked \cup {<<f, "extract">>}
                     /\ job' = [job EXCEPT ![w].pc = "push"]
                ELSE IF TestStrIsEmpty(s)
                THEN /\ job' = [job EXCEPT ![w].pc = "lock", ![w].out = "ignored"]
                     /\ UNCHANGED panicked
                ELSE /\ job' = [job EXCEPT ![w].pc = "decide"]
                     /\ UNCHANGED panicked
    /\ UNCHANGED <<pool_pc, path, test_files, test_threads, scheduled, queue,
                   summary, verdicts, failures, num_ignored, stderr_lock,
                   failures_lock>>
    /\ UNCHANGED <<jobOnly, matchOnly, parseOnly, pumpOnly>>

\* The job from parse_tests to the decision to ignore the file: a fatal error
\* ends the process, an ignored file is written as ignored, another one goes
\* to run_tests.
JobDecide(w) ==
    /\ Alive(w)
    /\ job[w].pc = "decide"
    /\ \E r \in {"fatal", "ignored", "run"} :
          IF r = "fatal"
          THEN /\ pool_pc' = "fatal"
               /\ UNCHANGED job
          ELSE IF r = "ignored"
          THEN /\ job' = [job EXCEPT ![w].pc = "lock", ![w].out = "ignored"]
               /\ UNCHANGED pool_pc
          ELSE /\ job' = [job EXCEPT ![w].pc = "run"]
               /\ UNCHANGED pool_pc
    /\ UNCHANGED <<path, test_files, test_threads, scheduled, queue, panicked,
                   summary, failures, verdicts, num_ignored>>
    /\ UNCHANGED <<stderr_lock, failures_lock, console>>
    /\ UNCHANGED <<jobOnly, matchOnly, parseOnly, pumpOnly>>

\* run_tests once the processes of the commands have ended: a panic of
\* test_cmds or fm_options is to be pushed as a failure with nothing in it, a
\* fatal error ends the process, otherwise the file is to be written as ok or
\* FAILED.
JobRun(w) ==
    /\ Alive(w)
    /\ job[w].pc = "run"
    /\ LET f == job[w].file
       IN \E r \in {"panic", "fatal", "ok", "FAILED"} :
             IF r = "fatal"
             THEN /\ pool_pc' = "fatal"
                  /\ UNCHANGED <<job, failures, panicked>>
             ELSE IF r = "panic"
             THEN /\ panicked' = panicked \cup {<<f, "run_tests">>}
                  /\ job' = [job EXCEPT ![w].pc = "push"]
                  /\ UNCHANGED <<pool_pc, failures>>
             ELSE /\ job' = [job EXCEPT ![w].pc = "lock", ![w].out = r]
                  /\ UNCHANGED <<pool_pc, failures, panicked>>
    /\ UNCHANGED <<path, test_files, test_threads, scheduled, queue, summary,
                   verdicts, num_ignored>>
    /\ UNCHANGED <<stderr_lock, failures_lock, console>>
    /\ UNCHANGED <<jobOnly, matchOnly, parseOnly, pumpOnly>>

StderrFreeAlways(w) == TRUE

\* stderr.lock() returns: no other thread holds the lock.
StderrFree(w) == stderr_lock = 0

\* write_ignored and the last block of run_tests: the lock of stderr is taken
\* and, with more than one thread, the name of the test is written.
JobLock(w) ==
    /\ Alive(w)
    /\ job[w].pc = "lock"
    /\ StderrFree(w)
    /\ stderr_lock' = w
    /\ console' = IF test_threads > 1 THEN Append(console, <<job[w].file, "name">>)
                  ELSE console
    /\ job' = [job EXCEPT ![w].pc = "verdict"]
    /\ UNCHANGED <<pool_pc, path, test_files, test_threads, scheduled, queue,
                   verdicts, panicked, summary, failures, num_ignored,
                   failures_lock>>
    /\ UNCHANGED <<jobOnly, matchOnly, parseOnly, pumpOnly>>

unlock_never(w, l) == l

\* The guard of a lock goes out of scope: the lock is free if w held it.
unlock(w, l) == IF l = w THEN 0 ELSE l

\* failures.lock() returns: no other thread holds the mutex.
MutexFree(w) == failures_lock = 0

\* The thread of the job is about to call failures.lock(): it caught a panic
\* of a callback, or it holds the lock of stderr and the file failed.
WantsMutex(w) ==
    /\ \/ job[w].pc = "push"
       \/ job[w].pc = "verdict" /\ job[w].out = "FAILED"
    /\ failures_lock # w

\* failures.lock().unwrap()
JobMutex(w) ==
    /\ Alive(w)
    /\ WantsMutex(w)
    /\ MutexFree(w)
    /\ failures_lock' = w
    /\ UNCHANGED <<pool_pc, path, test_files, test_threads, scheduled, queue,
                   job, verdicts, panicked, summary, failures, num_ignored,
                   stderr_lock, console>>
    /\ UNCHANGED <<jobOnly, matchOnly, parseOnly, pumpOnly>>

\* After a panic of a callback: the failure with nothing in it is pushed and
\* the mutex is dropped; the job is over and no verdict is written.
JobPush(w) ==
    /\ Alive(w)
    /\ job[w].pc = "push"
    /\ failures_lock = w
    /\ failures' = push(failures, <<job[w].file, EmptyFailure>>)
    /\ failures_lock' = unlock(w, failures_lock)
    /\ job' = [job EXCEPT ![w] = NoJob]
    /\ UNCHANGED <<pool_pc, path, test_files, test_threads, scheduled, queue,
                   verdicts, panicked, summary, num_ignored, stderr_lock,
                   console>>
    /\ UNCHANGED <<jobOnly, matchOnly, parseOnly, pumpOnly>>

\* The verdict is written and the lock is dropped; a failure is pushed, with
\* the mutex of failures held, before FAILED is written; an ignored file is
\* counted after write_ignored.
JobVerdict(w) ==
    /\ Alive(w)
    /\ job[w].pc = "verdict"
    /\ job[w].out = "FAILED" => failures_lock = w
    /\ LET f == job[w].file
           r == job[w].out
       IN /\ console' = Append(console, <<f, r>>)
          /\ verdicts' = [verdicts EXCEPT ![f] = Append(@, r)]
          /\ failures' = IF r = "FAILED" THEN push(failures, <<f, SomeFailure>>)
                         ELSE failures
          /\ num_ignored' = IF r = "ignored" THEN num_ignored + 1 ELSE num_ignored
    /\ failures_lock' = unlock(w, failures_lock)
    /\ stderr_lock' = unlock(w, stderr_lock)
    /\ job' = [job EXCEPT ![w] = NoJob]
    /\ UNCHANGED <<pool_pc, path, test_files, test_threads, scheduled, queue,
                   panicked, summary>>
    /\ UNCHANGED <<jobOnly, matchOnly, parseOnly, pumpOnly>>

JoinReadyEarly == queue = <<>>

\* What pool.join waits for: every job was taken and every worker is done.
JoinReady == queue = <<>> /\ \A w \in Workers : job[w] = NoJob

\* pool.join
PoolJoin ==
    /\ pool_pc = "join"
    /\ JoinReady
    /\ pool_pc' = "summary"
    /\ UNCHANGED <<path, test_files, test_threads, scheduled, queue, job, verdicts,
                   panicked, summary, failures, num_ignored>>
    /\ UNCHANGED <<stderr_lock, failures_lock, console>>
    /\ UNCHANGED <<jobOnly, matchOnly, parseOnly, pumpOnly>>

Max(a, b) == IF a >= b THEN a ELSE b

\* pp_failures: the counts of the last line it prints.
PoolSummary ==
    /\ pool_pc = "summary"
    /\ summary' =
          [passed |-> Max(Len(test_files), Len(failures)) - Len(failures),
           failed |-> Len(failures),
           ignored |-> num_ignored,
           result |-> IF failures = <<>> THEN "ok" ELSE "FAILED"]
    /\ pool_pc' = "exit"
    /\ UNCHANGED <<path, test_files, test_threads, scheduled, queue, job, verdicts,
                   panicked, failures, num_ignored>>
    /\ UNCHANGED <<stderr_lock, failures_lock, console>>
    /\ UNCHANGED <<jobOnly, matchOnly, parseOnly, pumpOnly>>

PoolNext ==
    \/ PoolFilter
    \/ PoolExecute
    \/ \E w \in Workers : JobTake(w)
    \/ \E w \in Workers : JobExtract(w)
    \/ \E w \in Workers : JobDecide(w)
    \/ \E w \in Workers : JobRun(w)
    \/ \E w \in Workers : JobLock(w)
    \/ \E w \in Workers : JobMutex(w)
    \/ \E w \in Workers : JobPush(w)
    \/ \E w \in Workers : JobVerdict(w)
    \/ PoolJoin
    \/ PoolSummary

pool_vars == <<poolOnly, failures, num_ignored>>

PoolSpec == PoolInit /\ [][PoolNext]_pool_vars

\* The main thread goes on, and so does every worker: the threads of the pool
\* are scheduled by the operating system, and the processes of the commands
\* are assumed to close their streams and to exit.
PoolLive ==
    /\ PoolSpec
    /\ WF_pool_vars(PoolFilter \/ PoolExecute \/ PoolJoin \/ PoolSummary)
    /\ \A w \in Workers :
          WF_pool_vars(JobTake(w) \/ JobExtract(w) \/ JobDecide(w) \/ JobRun(w)
                          \/ JobLock(w) \/ JobMutex(w) \/ JobPush(w)
                          \/ JobVerdict(w))

\* ------------------------------------------------------------------------
\* fuzzy.rs: match_vec and match_line
\* ------------------------------------------------------------------------
\* The largest number of lines of a pattern and of a text.
MaxPLines == 2
MaxSLines == 2

\* char::is_whitespace, on the characters of the texts
Whitespace == {" ", "\n"}

RECURSIVE trim_start(_)
trim_start(t) ==
    IF t # "" /\ SubSeq(t, 1, 1) \in Whitespace
    THEN trim_start(SubSeq(t, 2, Len(t))) ELSE t

RECURSIVE trim_end(_)
trim_end(t) ==
    IF t # "" /\ SubSeq(t, Len(t), Len(t)) \in Whitespace
    THEN trim_end(SubSeq(t, 1, Len(t) - 1)) ELSE t

\* str::trim
trim(t) == trim_end(trim_start(t))

\* The length of the first line of t, without its newline.
RECURSIVE FirstLineLen(_)
FirstLineLen(t) ==
    IF t = "" \/ SubSeq(t, 1, 1) = "\n" THEN 0
    ELSE 1 + FirstLineLen(SubSeq(t, 2, Len(t)))

\* str::lines
RECURSIVE lines(_)
lines(t) ==
    IF t = "" THEN <<>>
    ELSE LET n == FirstLineLen(t)
         IN  <<SubSeq(t, 1, n)>> \o lines(SubSeq(t, n + 2, Len(t)))

\* str::starts_with, str::ends_with and str::find(..).is_some()
starts_with(t, p) == Len(p) <= Len(t) /\ SubSeq(t, 1, Len(p)) = p
ends_with(t, p) == Len(p) <= Len(t) /\ SubSeq(t, Len(t) - Len(p) + 1, Len(t)) = p
find(t, p) == \E k \in 0..(Len(t) - Len(p)) : SubSeq(t, k + 1, k + Len(p)) = p

\* What a call returns: "true", "false", or it does not return: "panic" (a
\* slice whose start lies after its end), "fatal" (fatal exits the process).
Ret(b) == IF b THEN "true" ELSE "false"

match_line(p, t) ==
    LET sww == starts_with(p, WILDCARD)
        eww == ends_with(p, WILDCARD)
    IN  IF sww /\ eww
        THEN IF Len(WILDCARD) > Len(p) - Len(WILDCARD) THEN "panic"
             ELSE Ret(find(t, SubSeq(p, Len(WILDCARD) + 1, Len(p) - Len(WILDCARD))))
        ELSE IF sww THEN Ret(ends_with(t, SubSeq(p, Len(WILDCARD) + 1, Len(p))))
        ELSE IF eww THEN Ret(starts_with(t, SubSeq(p, 1, Len(p) - Len(WILDCARD))))
        ELSE Ret(p = t)

\* while si < slines.len() && !match_line(&plines[pi], slines[si]) { si += 1; }
RECURSIVE scan(_, _, _)
scan(p, sl, j) ==
    IF j < Len(sl) /\ match_line(p, sl[j + 1]) = "false" THEN scan(p, sl, j + 1)
    ELSE j

match_end_strict(pl, sl, i, j) == i = Len(pl) /\ j = Len(sl)

match_end_prefix(pl, sl, i, j) == i = Len(pl)

\* The expression match_vec returns after its loop.
match_end(pl, sl, i, j) ==
    \/ i = Len(pl) /\ j = Len(sl)
    \/ i + 1 = Len(pl) /\ pl[i + 1] = WILDCARD /\ j = Len(sl)

\* The loop of match_vec from the indices i and j (from 0) on: what it
\* returns, and the indices it ends with.
RECURSIVE match_from(_, _, _, _)
match_from(pl, sl, i, j) ==
    IF i < Len(pl) /\ j < Len(sl)
    THEN IF pl[i + 1] = WILDCARD
         THEN IF i + 1 = Len(pl)
              THEN [res |-> "true", pi |-> i + 1, si |-> j]
              ELSE IF pl[i + 2] = WILDCARD
              THEN [res |-> "fatal", pi |-> i + 1, si |-> j]
              ELSE IF match_line(pl[i + 2], sl[j + 1]) = "panic"
              THEN [res |-> "panic", pi |-> i + 1, si |-> j]
              ELSE match_from(pl, sl, i + 1, scan(pl[i + 2], sl, j))
         ELSE LET m == match_line(pl[i + 1], sl[j + 1])
              IN  IF m = "true" THEN match_from(pl, sl, i + 1, j + 1)
                  ELSE [res |-> m, pi |-> i, si |-> j]
    ELSE [res |-> Ret(match_end(pl, sl, i, j)), pi |-> i, si |-> j]

\* let slines = s.trim().lines().map(|x| x.trim()).collect::<Vec<_>>();
slines_of(t) == LET ls == lines(trim(t)) IN [k \in 1..Len(ls) |-> trim(ls[k])]

match_vec(pl, t) == match_from(pl, slines_of(t), 0, 0)

\* The lines of the patterns that are explored: trimmed and not blank.
PatternLines == {WILDCARD, "a", "b", "...b", "b...", "...b...", "...."}

Patterns == UNION {[1..n -> PatternLines] : n \in 0..MaxPLines}

\* The lines of the texts that are explored, and the texts made of them.
RawLines == {"a", "b", "ab", "ba", "aba", "B", " b ", ""}

RECURSIVE Join(_)
Join(ls) ==
    IF ls = <<>> THEN ""
    ELSE IF Len(ls) = 1 THEN ls[1]
    ELSE ls[1] \o "\n" \o Join(Tail(ls))

Strs == {Join(ls) : ls \in UNION {[1..n -> RawLines] : n \in 0..MaxSLines}}

MatchInit ==
    /\ plines \in Patterns
    /\ str \in Strs
    /\ slines = <<>>
    /\ pi = 0
    /\ si = 0
    /\ m_pc = "call"
    /\ matched = "none"
    /\ NoPool
    /\ NoParse
    /\ NoPump
    /\ failures = <<>>
    /\ num_ignored = 0
    /\ ignored = FALSE /\ rerun_at_most = 0 /\ pc = "none" /\ test_str = "unknown"
    /\ ignore_if = FALSE /\ ignore_cmd = "not run" /\ test_names = {}
    /\ cmd_pairs = <<>> /\ stage = 0 /\ test = DefaultTestCmd /\ rerun = 0
    /\ failure = EmptyFailure /\ verdict = "none" /\ last = NoRun
    /\ spawned = <<>> /\ cmds_calls = 0 /\ block = <<>>

\* The call match_vec(plines, s).
MatchVec ==
    /\ m_pc = "call"
    /\ LET r == match_vec(plines, str)
       IN  /\ matched' = r.res
           /\ pi' = r.pi
           /\ si' = r.si
    /\ slines' = slines_of(str)
    /\ m_pc' = "done"
    /\ UNCHANGED <<plines, str>>
    /\ UNCHANGED <<jobOnly, poolOnly, parseOnly, pumpOnly, failures, num_ignored>>

MatchNext == MatchVec

MatchSpec == MatchInit /\ [][MatchNext]_matchOnly

\* ------------------------------------------------------------------------
\* parser.rs: parse_tests, key_val and key_multiline_val
\* ------------------------------------------------------------------------
\* The largest number of lines of a text.
MaxTextLines == 3

\* indent_level, of the line t
indent_level(t) == Len(t) - Len(trim_start(t))

\* .take_while(|c| !(c.is_whitespace() || c == &':')).count()
RECURSIVE KeyLen(_)
KeyLen(t) ==
    IF t = "" \/ SubSeq(t, 1, 1) \in Whitespace \cup {":"} THEN 0
    ELSE 1 + KeyLen(SubSeq(t, 2, Len(t)))

\* key_val, of the line at indentation indent: the key and the value of the
\* line, or the fatal error of a key without ':'.
key_val(line, indent) ==
    LET key_len == KeyLen(SubSeq(line, indent + 1, Len(line)))
        key == SubSeq(line, indent + 1, indent + key_len)
        colon == indent + key_len
                   + indent_level(SubSeq(line, indent + key_len + 1, Len(line)))
        after == SubSeq(line, colon + 2, Len(line))
    IN  IF colon < Len(line) /\ SubSeq(line, colon + 1, colon + 1) = ":"
        THEN [res |-> "ok", key |-> key, val |-> trim_start(after)]
        ELSE [res |-> "fatal", key |-> key, val |-> ""]

\* The comment check of key_multiline_val tests the line from sub_indent on.
IsCommentAt(cp, line, from) ==
    cp # <<>> /\ starts_with(SubSeq(line, from + 1, Len(line)), cp[1])

\* The loop of key_multiline_val over the continuation lines, from line_off
\* (from 0) on: where it ends and the value, or the panic of
\* lines[line_off][sub_indent..] on a line shorter than sub_indent.
RECURSIVE kmv_loop(_, _, _, _, _, _)
kmv_loop(cp, ls, line_off, indent, sub_indent, val) ==
    IF line_off >= Len(ls) THEN [res |-> "ok", end |-> line_off, val |-> val]
    ELSE LET line == ls[line_off + 1]
             cur_indent == indent_level(line)
         IN  IF cur_indent = Len(line)
             THEN kmv_loop(cp, ls, line_off + 1, indent, sub_indent, Append(val, ""))
             ELSE IF cur_indent <= indent
             THEN [res |-> "ok", end |-> line_off, val |-> val]
             ELSE IF sub_indent > Len(line)
             THEN [res |-> "panic", end |-> line_off, val |-> val]
             ELSE IF IsCommentAt(cp, line, sub_indent)
             THEN kmv_loop(cp, ls, line_off + 1, indent, sub_indent, val)
             ELSE kmv_loop(cp, ls, line_off + 1, indent, sub_indent,
                           Append(val, SubSeq(line, sub_indent + 1, Len(line))))

\* // Remove trailing empty strings
RECURSIVE pop_empty(_)
pop_empty(val) ==
    IF val # <<>> /\ val[Len(val)] = "" THEN pop_empty(SubSeq(val, 1, Len(val) - 1))
    ELSE val

\* // Remove leading empty strings
RECURSIVE remove_empty(_)
remove_empty(val) ==
    IF val # <<>> /\ val[1] = "" THEN remove_empty(Tail(val)) ELSE val

strip_empty_none(val) == val

strip_empty(val) == remove_empty(pop_empty(val))

\* key_multiline_val(comment_prefix, lines, line_off, indent)
key_multiline_val(cp, ls, line_off, indent) ==
    LET kv == key_val(ls[line_off + 1], indent)
    IN  IF kv.res = "fatal"
        THEN [res |-> "fatal", end |-> line_off, key |-> kv.key, val |-> <<>>]
        ELSE IF line_off + 1 < Len(ls)
        THEN LET r == kmv_loop(cp, ls, line_off + 1, indent,
                               indent_level(ls[line_off + 2]), <<kv.val>>)
             IN  [res |-> r.res, end |-> r.end, key |-> kv.key,
                  val |-> IF r.res = "ok" THEN strip_empty(r.val) ELSE <<>>]
        ELSE [res |-> "ok", end |-> line_off + 1, key |-> kv.key,
              val |-> strip_empty(<<kv.val>>)]

Digits == "0123456789"

IsDigit(c) == \E k \in 1..Len(Digits) : SubSeq(Digits, k, k) = c

RECURSIVE DigitsValue(_, _)
DigitsValue(t, acc) ==
    IF t = "" THEN acc
    ELSE DigitsValue(SubSeq(t, 2, Len(t)),
                     10 * acc + (CHOOSE k \in 0..9 : SubSeq(Digits, k + 1, k + 1) = SubSeq(t, 1, 1)))

RECURSIVE StripZeros(_)
StripZeros(t) ==
    IF Len(t) > 1 /\ SubSeq(t, 1, 1) = "0" THEN StripZeros(SubSeq(t, 2, Len(t)))
    ELSE t

\* str::parse::<i32>: an optional sign, then digits, within the 32 bits (the
\* tenth digit is compared apart, so that no number above 2^31 is formed).
parse_i32(t) ==
    LET neg == t # "" /\ SubSeq(t, 1, 1) = "-"
        signed == t # "" /\ SubSeq(t, 1, 1) \in {"+", "-"}
        ds == IF signed THEN SubSeq(t, 2, Len(t)) ELSE t
        wf == ds # "" /\ \A k \in 1..Len(ds) : IsDigit(SubSeq(ds, k, k))
        z == IF wf THEN StripZeros(ds) ELSE "0"
        hi == IF Len(z) <= 9 THEN 0 ELSE DigitsValue(SubSeq(z, 1, 9), 0)
        lo == IF Len(z) <= 9 THEN DigitsValue(z, 0)
              ELSE DigitsValue(SubSeq(z, 10, 10), 0)
        fits == \/ Len(z) <= 9
                \/ /\ Len(z) = 10
                   /\ \/ hi < 214748364
                      \/ hi = 214748364 /\ lo <= (IF neg THEN 8 ELSE 7)
        v == IF Len(z) <= 9 THEN (IF neg THEN 0 - lo ELSE lo)
             ELSE IF neg THEN (0 - hi * 10) - lo ELSE hi * 10 + lo
    IN  [ok |-> wf /\ fits, n |-> IF wf /\ fits THEN v ELSE 0]

parse_status_lenient(val_str) ==
    LET x == to_lowercase(val_str)
    IN  IF x = "success" THEN StSuccess
        ELSE IF x = "signal" THEN StSignal
        ELSE IF parse_i32(x).ok THEN StInt(parse_i32(x).n)
        ELSE StError

\* The Status of a status or rerun-if-status value, StNone for the fatal
\* error of an unknown status.
parse_status(val_str) ==
    LET x == to_lowercase(val_str)
    IN  IF x = "success" THEN StSuccess
        ELSE IF x = "error" THEN StError
        ELSE IF x = "signal" THEN StSignal
        ELSE IF parse_i32(x).ok THEN StInt(parse_i32(x).n)
        ELSE StNone

\* The index (from 0) of the first '=' of t, -1 for None.
RECURSIVE find_eq(_, _)
find_eq(t, k) ==
    IF k >= Len(t) THEN -1
    ELSE IF SubSeq(t, k + 1, k + 1) = "=" THEN k
    ELSE find_eq(t, k + 1)

Keys ==
    {"env-var", "exec-arg", "status", "rerun-if-status", "stdin", "stderr",
     "stdout", "rerun-if-stderr", "rerun-if-stdout"}

\* The match on key of parse_tests: the TestCmd with the key set, or the
\* fatal error. A stdin is kept as the number of its bytes.
apply_key(t, key, val) ==
    LET val_str == Join(val)
    IN  IF key \notin Keys THEN [res |-> "fatal", why |-> "key", t |-> t]
        ELSE IF key = "env-var"
        THEN LET i == find_eq(val_str, 0)
             IN  IF i = -1 THEN [res |-> "fatal", why |-> "env-var", t |-> t]
                 ELSE [res |-> "ok", why |-> "",
                       t |-> SetKey(t, key, <<trim(SubSeq(val_str, 1, i)),
                                              trim(SubSeq(val_str, i + 2, Len(val_str)))>>)]
        ELSE IF key \in {"status", "rerun-if-status"}
        THEN IF parse_status(val_str) = StNone
             THEN [res |-> "fatal", why |-> "status", t |-> t]
             ELSE [res |-> "ok", why |-> "", t |-> SetKey(t, key, parse_status(val_str))]
        ELSE IF key = "exec-arg"
        THEN [res |-> "ok", why |-> "", t |-> SetKey(t, key, val_str)]
        ELSE IF key = "stdin"
        THEN [res |-> "ok", why |-> "", t |-> SetKey(t, key, Len(val_str))]
        ELSE [res |-> "ok", why |-> "", t |-> SetKey(t, key, val)]

\* The inner loop of parse_tests over the keys of the block of a command
\* whose line is at indentation indent, from line_off on.
RECURSIVE parse_block(_, _, _, _, _)
parse_block(cp, ls, line_off, indent, t) ==
    IF line_off >= Len(ls) THEN [res |-> "ok", why |-> "", end |-> line_off, t |-> t]
    ELSE LET line == ls[line_off + 1]
             sub_indent == indent_level(line)
         IN  IF sub_indent = Len(line)
             THEN parse_block(cp, ls, line_off + 1, indent, t)
             ELSE IF sub_indent = indent
             THEN [res |-> "ok", why |-> "", end |-> line_off, t |-> t]
             ELSE LET r == key_multiline_val(cp, ls, line_off, sub_indent)
                  IN  IF r.res = "fatal"
                      THEN [res |-> "fatal", why |-> "terminator", end |-> line_off, t |-> t]
                      ELSE IF r.res = "panic"
                      THEN [res |-> "panic", why |-> "", end |-> line_off, t |-> t]
                      ELSE LET a == apply_key(t, r.key, r.val)
                           IN  IF a.res = "fatal"
                               THEN [res |-> "fatal", why |-> a.why, end |-> r.end, t |-> t]
                               ELSE parse_block(cp, ls, r.end, indent, a.t)

\* The comment check of the outer loop of parse_tests.
is_comment(cp, line, indent) == IsCommentAt(cp, line, indent)

occupied_never(ts, name) == FALSE

\* Entry::Occupied
occupied(ts, name) == name \in DOMAIN ts

Failed(res, why) == [res |-> res, why |-> why, ignore_if |-> <<>>, tests |-> <<>>]

\* The outer loop of parse_tests from line_off on, with the ignore_if and the
\* tests it has so far: Tests { ignore_if, tests }, or how the call ended.
RECURSIVE parse_from(_, _, _, _, _)
parse_from(cp, ls, line_off, ign, ts) ==
    IF line_off >= Len(ls)
    THEN [res |-> "ok", why |-> "", ignore_if |-> ign, tests |-> ts]
    ELSE LET line == ls[line_off + 1]
             indent == indent_level(line)
         IN  IF indent = Len(line) THEN parse_from(cp, ls, line_off + 1, ign, ts)
             ELSE IF is_comment(cp, line, indent)
             THEN parse_from(cp, ls, line_off + 1, ign, ts)
             ELSE LET kv == key_val(line, indent)
                  IN  IF kv.res = "fatal" THEN Failed("fatal", "terminator")
                      ELSE IF kv.key = "ignore-if"
                      THEN parse_from(cp, ls, line_off + 1, <<kv.val>>, ts)
                      ELSE IF kv.val # "" THEN Failed("fatal", "value")
                      ELSE IF occupied(ts, to_lowercase(kv.key))
                      THEN Failed("fatal", "duplicate")
                      ELSE LET b == parse_block(cp, ls, line_off + 1, indent,
                                                DefaultTestCmd)
                           IN  IF b.res # "ok" THEN Failed(b.res, b.why)
                               ELSE parse_from(cp, ls, b.end, ign,
                                      [n \in DOMAIN ts \cup {to_lowercase(kv.key)} |->
                                          IF n = to_lowercase(kv.key) THEN b.t
                                          ELSE ts[n]])

\* parse_tests(comment_prefix, test_str)
parse_tests(cp, t) == parse_from(cp, lines(t), 0, <<>>, <<>>)

\* The lines of the texts that are explored.
TextLines ==
    {"a:", "A:", "b:", "a: v", "ignore-if: t",
     "  stdout:", "  stderr: x  ", "  status: Error",
     "  status: bad", "  bogus: x",
     "    z  ", "  c", "",
     "    # c", "  # c"}

TestTexts == {Join(ls) : ls \in UNION {[1..n -> TextLines] : n \in 0..MaxTextLines}}

ParseInit ==
    /\ comment_prefix \in {<<>>, <<"#">>}
    /\ test_text \in TestTexts
    /\ parse_pc = "call"
    /\ kmv = NoKmv
    /\ tests = NoTests
    /\ NoPool
    /\ NoMatch
    /\ NoPump
    /\ NoFile

\* A call of key_multiline_val on the first line of the text, a line that
\* is not blank, at the indentation of that line.
KeyMultilineVal ==
    /\ parse_pc = "call"
    /\ lines(test_text) # <<>>
    /\ trim(lines(test_text)[1]) # ""
    /\ kmv' = key_multiline_val(comment_prefix, lines(test_text), 0,
                                indent_level(lines(test_text)[1]))
    /\ parse_pc' = "key_multiline_val"
    /\ UNCHANGED <<comment_prefix, test_text, tests>>
    /\ UNCHANGED <<jobOnly, poolOnly, matchOnly, pumpOnly, failures, num_ignored>>

\* The call parse_tests(comment_prefix, test_str) of test_file.
ParseTestsCall ==
    /\ parse_pc = "call"
    /\ tests' = parse_tests(comment_prefix, test_text)
    /\ parse_pc' = "parse_tests"
    /\ UNCHANGED <<comment_prefix, test_text, kmv>>
    /\ UNCHANGED <<jobOnly, poolOnly, matchOnly, pumpOnly, failures, num_ignored>>

ParseNext == KeyMultilineVal \/ ParseTestsCall

ParseSpec == ParseInit /\ [][ParseNext]_parseOnly

\* ------------------------------------------------------------------------
\* run_cmd: the pump between the tester and the process it spawns
\* ------------------------------------------------------------------------
\* The longest stdin payload, in bytes.
MaxStdin == 2

\* The number of warnings after which the model stops counting them.
MaxWarnings == 1

\* The bytes the pipe of stdin holds before a write would block.
PipeCap == 2

POLL_STDIN == 1
POLL_STDERR == 2
POLL_STDOUT == 3

STATUS_EOF == 1
STATUS_ERR == 2

\* The processes run_cmd may spawn: one that reads its stdin until end of
\* file before it does anything else or one that never reads it, and one
\* that closes its streams and exits, one that keeps its stdout open, or one
\* that closes its streams and goes on running.
Children ==
    [reads : {"none", "eof"}, ends : {"exits", "keeps_stdout", "never_exits"},
     in_open : {TRUE}, err_open : {TRUE}, out_open : {TRUE},
     exited : {FALSE}, saw_eof : {FALSE}]

\* The tester's end of the child's stdin is closed: by close(stdin_fd), or
\* because the tester's process ended in fatal.
StdinClosed == statuses[POLL_STDIN] # 0 \/ pump_pc = "fatal"

\* A variant of AllEof that takes a file closed by an error for one at EOF.
AllEofOrErr == \A i \in 1..3 : statuses[i] # 0

\* All three files reached EOF.
AllEof == \A i \in 1..3 : statuses[i] = STATUS_EOF

\* All three files are closed, by EOF or by an error.
AllClosed == \A i \in 1..3 : statuses[i] # 0

\* A variant of stdin_events that goes on polling a closed stdin.
stdin_events_closed ==
    IF stdin_len >= 0 /\ stdin_off = stdin_len THEN "0" ELSE "POLLOUT"

\* The events poll is asked to report for stdin: "off" when the fd is -1.
stdin_events ==
    IF statuses[POLL_STDIN] # 0 THEN "off"
    ELSE IF stdin_len >= 0 /\ stdin_off = stdin_len THEN "0"
    ELSE "POLLOUT"

\* What poll reports for stdin: an error once the child's end is closed,
\* POLLOUT when it was asked for and the pipe has room.
stdin_revents ==
    IF stdin_events = "off" THEN "0"
    ELSE IF ~child.in_open THEN "POLLERR"
    ELSE IF stdin_events = "POLLOUT" /\ pipe < PipeCap THEN "POLLOUT"
    ELSE "0"

\* What poll reports for stderr (f = "err_open") or stdout ("out_open").
out_revents(i, f, buffered) ==
    IF statuses[i] # 0 THEN {}
    ELSE (IF buffered THEN {"POLLIN"} ELSE {})
         \cup (IF ~child[f] THEN {"POLLHUP"} ELSE {})

\* File i is handed to poll: its fd is not replaced by -1.
polled(i) ==
    IF i = POLL_STDIN THEN stdin_events # "off" ELSE statuses[i] = 0

\* The bytes one write can put into the pipe: at least one, at most what is
\* left of the payload and what the pipe has room for.
WriteSizes ==
    {i \in 1..PipeCap : i <= stdin_len - stdin_off /\ i <= PipeCap - pipe}

\* A variant of wait_done that does not wait for the child.
wait_done_always == TRUE

\* child.try_wait() returns Ok(Some(_)).
wait_done == child.exited

\* The status of stdin after a write that brought the offset to off.
after_write(off) == IF off = stdin_len THEN STATUS_EOF ELSE 0

\* The size of the buffer of one read, in bytes.
READBUF == 2

\* The bytes of a stream: one that is a character of its own, the first and
\* the second byte of a character of two bytes.
Bytes == {"a", "L", "T"}

\* str::from_utf8 accepts the bytes b.
from_utf8_ok(b) ==
    \A k \in 1..Len(b) :
        /\ b[k] = "L" => (k < Len(b) /\ b[k + 1] = "T")
        /\ b[k] = "T" => (k > 1 /\ b[k - 1] = "L")

\* What the reads of one loop return for the bytes buf of the pipe: each
\* read fills the buffer as far as there are bytes.
RECURSIVE read_chunks(_)
read_chunks(buf) ==
    IF buf = <<>> THEN <<>>
    ELSE IF Len(buf) <= READBUF THEN <<buf>>
    ELSE <<SubSeq(buf, 1, READBUF)>>
         \o read_chunks(SubSeq(buf, READBUF + 1, Len(buf)))

\* The process begins: stdin is closed at once when the block has no stdin.
PumpStart ==
    /\ pump_pc = "start"
    /\ pump_pc' = "loop"
    /\ IF stdin_len = -1
       THEN /\ statuses' = [statuses EXCEPT ![POLL_STDIN] = STATUS_EOF]
            /\ closes' = [closes EXCEPT ![POLL_STDIN] = @ + 1]
       ELSE UNCHANGED <<statuses, closes>>
    /\ UNCHANGED <<stdin_len, stdin_off, warnings, cap_stdout, child, pipe,
                   out_buf, out_stream>>
    /\ UNCHANGED <<jobOnly, poolOnly, matchOnly, parseOnly, failures,
                   num_ignored>>

\* One iteration of the loop: the two checks at its top, poll, and what is
\* done for stdin, stderr and stdout.
PumpPoll ==
    /\ pump_pc = "loop"
    /\ IF AllEof
       THEN /\ pump_pc' = IF stdin_len >= 0 /\ stdin_off < stdin_len
                          THEN "fatal" ELSE "wait"
            /\ UNCHANGED <<stdin_off, statuses, cap_stdout, closes, pipe,
                           out_buf>>
       ELSE IF AllClosed
       THEN /\ pump_pc' = "fatal"
            /\ UNCHANGED <<stdin_off, statuses, cap_stdout, closes, pipe,
                           out_buf>>
       ELSE \E i \in (IF stdin_revents = "POLLOUT" THEN WriteSizes ELSE {0}) :
            LET s_in == IF stdin_revents = "POLLERR" THEN STATUS_ERR
                        ELSE IF stdin_revents = "POLLOUT"
                        THEN after_write(stdin_off + i)
                        ELSE statuses[POLL_STDIN]
                c_in == IF stdin_revents = "POLLERR" THEN 1
                        ELSE IF stdin_revents = "POLLOUT"
                                /\ stdin_off + i = stdin_len THEN 1
                        ELSE 0
                r_err == out_revents(POLL_STDERR, "err_open", FALSE)
                r_out == out_revents(POLL_STDOUT, "out_open", out_buf # <<>>)
                hup_err == "POLLHUP" \in r_err
                hup_out == "POLLHUP" \in r_out
                             /\ statuses[POLL_STDOUT] # STATUS_EOF
                chunks == read_chunks(out_buf)
                bad == "POLLIN" \in r_out
                       /\ \E k \in 1..Len(chunks) : ~from_utf8_ok(chunks[k])
            IN /\ stdin_off' = stdin_off + i
               /\ pipe' = pipe + i
               /\ statuses' =
                     <<s_in,
                       IF hup_err THEN STATUS_EOF ELSE statuses[POLL_STDERR],
                       IF hup_out /\ ~bad THEN STATUS_EOF
                       ELSE statuses[POLL_STDOUT]>>
               /\ closes' =
                     <<closes[POLL_STDIN] + c_in,
                       closes[POLL_STDERR] + (IF hup_err THEN 1 ELSE 0),
                       closes[POLL_STDOUT]
                          + (IF hup_out /\ ~bad THEN 1 ELSE 0)>>
               /\ pump_pc' = IF bad THEN "fatal" ELSE "loop"
               /\ IF "POLLIN" \in r_out /\ ~bad
                  THEN cap_stdout' = cap_stdout \o out_buf /\ out_buf' = <<>>
                  ELSE UNCHANGED <<cap_stdout, out_buf>>
    /\ UNCHANGED <<stdin_len, warnings, child, out_stream>>
    /\ UNCHANGED <<jobOnly, poolOnly, matchOnly, parseOnly, failures,
                   num_ignored>>

\* An iteration, of either loop, in which nothing was ready and the time of
\* the next warning has come: the warning is printed.
Warn ==
    /\ pump_pc \in {"loop", "wait"}
    /\ warnings < MaxWarnings
    /\ warnings' = warnings + 1
    /\ UNCHANGED <<stdin_len, stdin_off, statuses, pump_pc, cap_stdout, closes,
                   child, pipe, out_buf, out_stream>>
    /\ UNCHANGED <<jobOnly, poolOnly, matchOnly, parseOnly, failures,
                   num_ignored>>

\* The loop after the pump: run_cmd returns once the child has exited.
PumpWait ==
    /\ pump_pc = "wait"
    /\ wait_done
    /\ pump_pc' = "returned"
    /\ UNCHANGED <<stdin_len, stdin_off, statuses, warnings, cap_stdout, closes,
                   child, pipe, out_buf, out_stream>>
    /\ UNCHANGED <<jobOnly, poolOnly, matchOnly, parseOnly, failures,
                   num_ignored>>

\* What the child leaves alone when it takes a step.
pumpSide == <<stdin_len, stdin_off, statuses, pump_pc, warnings, cap_stdout,
              closes>>

\* The child reads one byte of its stdin.
ChildRead ==
    /\ pump_pc # "none"
    /\ child.reads = "eof" /\ ~child.saw_eof /\ pipe > 0
    /\ pipe' = pipe - 1
    /\ UNCHANGED <<child, pumpSide, out_buf, out_stream>>
    /\ UNCHANGED <<jobOnly, poolOnly, matchOnly, parseOnly, failures,
                   num_ignored>>

\* The child's read of its stdin returns end of file: the pipe is empty and
\* the other end is closed.
ChildSeesEof ==
    /\ pump_pc # "none"
    /\ child.reads = "eof" /\ ~child.saw_eof /\ pipe = 0
    /\ StdinClosed
    /\ child' = [child EXCEPT !.saw_eof = TRUE]
    /\ UNCHANGED <<pipe, pumpSide, out_buf, out_stream>>
    /\ UNCHANGED <<jobOnly, poolOnly, matchOnly, parseOnly, failures,
                   num_ignored>>

\* The child writes the next bytes of its output, in a piece of any size.
ChildWrite ==
    /\ pump_pc \in {"start", "loop"}
    /\ child.out_open /\ out_stream # <<>>
    /\ \E k \in 1..Len(out_stream) :
          /\ out_buf' = out_buf \o SubSeq(out_stream, 1, k)
          /\ out_stream' = SubSeq(out_stream, k + 1, Len(out_stream))
    /\ UNCHANGED <<child, pipe, pumpSide>>
    /\ UNCHANGED <<jobOnly, poolOnly, matchOnly, parseOnly, failures,
                   num_ignored>>

\* The child is past its reading of stdin.
ChildReady == child.reads = "none" \/ child.saw_eof

\* A child that does not read its stdin closes it.
ChildCloseStdin ==
    /\ pump_pc # "none"
    /\ child.reads = "none" /\ child.in_open
    /\ child' = [child EXCEPT !.in_open = FALSE]
    /\ UNCHANGED <<pipe, pumpSide, out_buf, out_stream>>
    /\ UNCHANGED <<jobOnly, poolOnly, matchOnly, parseOnly, failures,
                   num_ignored>>

\* The child closes its stderr (f = "err_open") or, its output written, its
\* stdout ("out_open").
ChildClose(f) ==
    /\ pump_pc # "none"
    /\ ChildReady /\ child[f]
    /\ f = "out_open" => (child.ends # "keeps_stdout" /\ out_stream = <<>>)
    /\ child' = [child EXCEPT ![f] = FALSE]
    /\ UNCHANGED <<pipe, pumpSide, out_buf, out_stream>>
    /\ UNCHANGED <<jobOnly, poolOnly, matchOnly, parseOnly, failures,
                   num_ignored>>

\* The child, its output written, exits, which closes what it still had open.
ChildExit ==
    /\ pump_pc # "none"
    /\ ChildReady /\ child.ends = "exits" /\ ~child.exited
    /\ out_stream = <<>>
    /\ child' = [child EXCEPT !.exited = TRUE, !.in_open = FALSE,
                              !.err_open = FALSE, !.out_open = FALSE]
    /\ UNCHANGED <<pipe, pumpSide, out_buf, out_stream>>
    /\ UNCHANGED <<jobOnly, poolOnly, matchOnly, parseOnly, failures,
                   num_ignored>>

\* What the children write to stdout: nothing, text, and bytes that are not
\* UTF-8 as a whole.
Streams ==
    {<<>>, <<"a">>, <<"T">>, <<"L", "T">>, <<"a", "L", "T">>}

\* run_cmd was called for a block with any stdin; nothing is written yet.
PumpInit ==
    /\ stdin_len \in -1..MaxStdin
    /\ stdin_off = 0
    /\ statuses = <<0, 0, 0>>
    /\ pump_pc = "start"
    /\ warnings = 0
    /\ cap_stdout = <<>>
    /\ closes = <<0, 0, 0>>
    /\ child \in Children
    /\ pipe = 0
    /\ out_buf = <<>>
    /\ out_stream \in Streams
    /\ NoPool
    /\ NoMatch
    /\ NoParse
    /\ NoFile

PumpSteps == PumpStart \/ PumpPoll \/ Warn \/ PumpWait

ChildSteps ==
    \/ ChildRead
    \/ ChildSeesEof
    \/ ChildWrite
    \/ ChildCloseStdin
    \/ ChildClose("err_open")
    \/ ChildClose("out_open")
    \/ ChildExit

PumpNext == PumpSteps \/ ChildSteps

PumpSpec == PumpInit /\ [][PumpNext]_pumpOnly

\* The pump goes on running and so does the child: the loops of run_cmd
\* never block for good, and a child does the next thing it is about to do.
PumpLive ==
    /\ PumpSpec
    /\ WF_pumpOnly(PumpStart)
    /\ WF_pumpOnly(PumpPoll)
    /\ WF_pumpOnly(PumpWait)
    /\ WF_pumpOnly(ChildRead)
    /\ WF_pumpOnly(ChildSeesEof)
    /\ WF_pumpOnly(ChildWrite)
    /\ WF_pumpOnly(ChildClose("err_open"))
    /\ WF_pumpOnly(ChildClose("out_open"))
    /\ WF_pumpOnly(ChildExit)

\* ------------------------------------------------------------------------
\* run_tests: the runs of one file, one after the other
\* ------------------------------------------------------------------------
\* What the children of the runs of one file write to stdout.
RunStreams == {<<>>, <<"a">>}

\* The first command of a file was spawned for its first run.
RunsInit ==
    /\ stdin_len \in {-1, 1}
    /\ stdin_off = 0
    /\ statuses = <<0, 0, 0>>
    /\ pump_pc = "start"
    /\ warnings = 0
    /\ cap_stdout = <<>>
    /\ closes = <<0, 0, 0>>
    /\ child \in Children
    /\ pipe = 0
    /\ out_buf = <<>>
    /\ out_stream \in RunStreams
    /\ failures = <<>>
    /\ num_ignored = 0
    /\ ignored = FALSE /\ rerun_at_most \in 0..MaxRerun /\ pc = "loop"
    /\ test_str = "text" /\ ignore_if = FALSE /\ ignore_cmd = "not run"
    /\ test_names = {} /\ cmd_pairs \in CmdPairs /\ stage = 1
    /\ test = DefaultTestCmd /\ rerun = RerunCount(0)
    /\ failure = EmptyFailure /\ verdict = "none" /\ last = NoRun
    /\ spawned = [s \in Stages |-> IF s = 1 THEN 1 ELSE 0]
    /\ cmds_calls = 1 /\ block = <<>>
    /\ NoPool
    /\ NoMatch
    /\ NoParse

\* run_cmd returned and run_tests calls it again: for the same command, when
\* the run failed and a rerun-if clause matched within the budget, or for the
\* next command.
SpawnNext ==
    /\ pc = "loop"
    /\ pump_pc = "returned"
    /\ \/ /\ RerunAllowed(rerun, rerun_at_most)
          /\ rerun' = RerunCount(rerun)
          /\ UNCHANGED <<stage, stdin_len>>
       \/ /\ stage < Len(cmd_pairs)
          /\ stage' = stage + 1
          /\ rerun' = RerunCount(0)
          /\ stdin_len' \in {-1, 1}
    /\ spawned' = [spawned EXCEPT ![stage'] = @ + 1]
    /\ stdin_off' = 0
    /\ statuses' = <<0, 0, 0>>
    /\ pump_pc' = "start"
    /\ warnings' = 0
    /\ cap_stdout' = <<>>
    /\ closes' = <<0, 0, 0>>
    /\ child' \in Children
    /\ pipe' = 0
    /\ out_buf' = <<>>
    /\ out_stream' \in RunStreams
    /\ UNCHANGED <<ignored, rerun_at_most, pc, test_str, ignore_if, ignore_cmd,
                   test_names, cmd_pairs, test, failure, verdict, last,
                   cmds_calls, block>>
    /\ UNCHANGED <<poolOnly, matchOnly, parseOnly, failures, num_ignored>>

RunsNext == PumpNext \/ SpawnNext

runs_vars == <<jobOnly, pumpOnly>>

RunsSpec == RunsInit /\ [][RunsNext]_runs_vars

\* ------------------------------------------------------------------------
\* Properties
\* ------------------------------------------------------------------------
\* last is a run of the command whose block is test, and the job goes on.
Ran == last.stage # 0 /\ pc # "fatal" /\ (last.stage = stage \/ pc = "begin")

\* The four checks of the run last were evaluated: no callback panicked and
\* the patterns of the block were built.
Judged == Ran /\ pc # "returned" /\ FMBuildOk(test.stderr) /\ FMBuildOk(test.stdout)

\* The command of the run last is about to be run again.
RerunPending == Ran /\ pc = "loop"

\* The loop over the commands is over.
Stopped == pc \in {"report", "done", "returned"}

NoLaterStage == \A j \in Stages : j > last.stage => spawned[j] = 0

OutputMatches ==
    /\ FMMatches(test.stderr, last.stderr)
    /\ FMMatches(test.stdout, last.stdout)
    /\ last.stdin_remaining = 0

RunPassed == failure = EmptyFailure /\ ~RerunPending

\* C1: a run whose stdout and stderr match and that left no stdin unconsumed
\* passes under the expectation Error iff the process ended unsuccessfully, and
\* passes under the expectation Success iff it ended successfully; a run that
\* does not pass is rerun or fills the failure in.
C1_StatusDecides ==
    (Judged /\ OutputMatches) =>
        /\ test.status = StError => (RunPassed <=> ~success(last.status))
        /\ test.status = StSuccess => (RunPassed <=> success(last.status))

C1_Witness ==
    /\ Judged /\ OutputMatches
    /\ test.status = StError
    /\ last.status = Exited(1)
    /\ pc = "done" /\ verdict = "ok"

\* C2: a command is run at most rerun_at_most + 1 times, and when the run
\* after the last permitted rerun fails a check the file is reported FAILED with
\* the status, stderr and stdout of that run.
C2_RunsBounded ==
    /\ \A i \in Stages : spawned[i] <= rerun_at_most + 1
    /\ (Judged /\ spawned[last.stage] = rerun_at_most + 1 /\ ~AllChecksPass(test, last))
        => /\ pc \in {"report", "done"}
           /\ failure.status = FailureStatus(test.status, last.status)
           /\ failure.stderr = OptText(last.stderr)
           /\ failure.stdout = OptText(last.stdout)
           /\ pc = "done" => (verdict = "FAILED" /\ failures = <<failure>>)

C2_Witness ==
    /\ Judged /\ ~AllChecksPass(test, last)
    /\ rerun_at_most = 1 /\ spawned[last.stage] = 2
    /\ pc = "done" /\ verdict = "FAILED"

StatusClauseMatches ==
    test.rerun_if_status.kind # "None" /\ PassStatus(test.rerun_if_status, last.status)

StderrClauseMatches ==
    /\ test.rerun_if_stderr # PtnNone
    /\ FMBuildOk(test.rerun_if_stderr)
    /\ FMMatches(test.rerun_if_stderr, last.stderr)

StdoutClauseMatches ==
    /\ test.rerun_if_stdout # PtnNone
    /\ FMBuildOk(test.rerun_if_stdout)
    /\ FMMatches(test.rerun_if_stdout, last.stdout)

BudgetLeft == spawned[last.stage] <= rerun_at_most

NoClause ==
    /\ test.rerun_if_status.kind = "None"
    /\ test.rerun_if_stderr = PtnNone
    /\ test.rerun_if_stdout = PtnNone

RECURSIVE RerunsUpTo(_)
RerunsUpTo(n) ==
    IF n = 0 THEN 0
    ELSE RerunsUpTo(n - 1) + (IF spawned[n] > 0 THEN spawned[n] - 1 ELSE 0)

\* The reruns of all the commands of the file.
TotalReruns == RerunsUpTo(MaxStages)

\* C4 as stated: over all the commands of a file there are at most
\* rerun_at_most reruns.
C4_AsStated == TotalReruns <= rerun_at_most

\* C4: the budget is per command: each command of a file is rerun at most
\* rerun_at_most times, so a file has at most rerun_at_most reruns per command
\* that was run.
C4_BudgetPerCommand ==
    /\ \A i \in Stages : spawned[i] > 0 => spawned[i] - 1 <= rerun_at_most
    /\ TotalReruns <= rerun_at_most * Cardinality({i \in Stages : spawned[i] > 0})

C4_Witness ==
    /\ rerun_at_most = 1
    /\ spawned[1] = 2 /\ spawned[2] = 2
    /\ pc = "done"

\* The run last ends the loop: it failed a check and is not rerun, or its
\* command was expected to end in Error and did.
Stopper ==
    /\ Judged /\ ~RerunPending
    /\ \/ ~AllChecksPass(test, last)
       \/ test.status = StError /\ ~success(last.status)

ErroredAsExpected ==
    /\ Judged
    /\ test.status = StError
    /\ ~success(last.status)
    /\ OutputMatches

EndExpected ==
    \/ test.status.kind = "Signal" /\ ~last.status.exited
    \/ test.status.kind = "Int" /\ last.status.exited /\ last.status.n = test.status.i

C8_AsStated ==
    (/\ Judged
     /\ pc \in {"report", "done"}
     /\ failure.status # "None")
        => /\ ~PassStatus(test.status, last.status)
           /\ failure.stderr.kind # "None" => ~FMMatches(test.stderr, last.stderr)
           /\ failure.stdout.kind # "None" => ~FMMatches(test.stdout, last.stdout)
           /\ failure.stdin_remaining # 0 => last.stdin_remaining # 0

\* C9: a file whose extracted text is empty ends ignored, whatever the mode: it
\* is counted once, test_cmds is not called, no process is spawned and no
\* failure is recorded.
C9_EmptyIsIgnored ==
    test_str = "empty" =>
        /\ pc = "ignored"
        /\ verdict = "ignored"
        /\ num_ignored = 1
        /\ cmds_calls = 0
        /\ ignore_cmd = "not run"
        /\ \A i \in Stages : spawned[i] = 0
        /\ failures = <<>>

C9_Witness ==
    /\ test_str = "empty"
    /\ ignored
    /\ pc = "ignored"

\* The decision to ignore the file or to run it has been taken.
Decided ==
    /\ test_str = "text"
    /\ pc \notin {"start", "extracted", "parsed"}
    /\ pc = "fatal" => cmds_calls > 0

IgnoreCmdSucceeded == ignore_if /\ ignore_cmd = "success"

\* C10: a file with a non-empty text is ignored in normal mode iff it has an
\* ignore-if whose command succeeds, and is run in ignored-only mode iff it has
\* an ignore-if whose command succeeds; an ignored file is counted once and
\* none of its commands is run.
C10_IgnoreIfAndMode ==
    Decided =>
        /\ ~ignored => (pc = "ignored" <=> IgnoreCmdSucceeded)
        /\ ignored => (pc # "ignored" <=> IgnoreCmdSucceeded)
        /\ pc = "ignored" =>
              /\ num_ignored = 1
              /\ verdict = "ignored"
              /\ cmds_calls = 0
              /\ \A i \in Stages : spawned[i] = 0
        /\ pc # "ignored" => num_ignored = 0

C10_Witness ==
    /\ Decided
    /\ ignored
    /\ IgnoreCmdSucceeded
    /\ spawned[1] > 0

\* test_cmds has returned, and the document has a block whose name none of
\* the returned commands has.
NameWithoutCommand ==
    /\ cmd_pairs # <<>>
    /\ \E n \in test_names : \A k \in 1..Len(cmd_pairs) : cmd_pairs[k] # n

\* The document has a block whose name test_cmds returns for no file.
NameOfNoCommand ==
    \A p \in CmdPairs : \E n \in test_names : \A k \in 1..Len(p) : p[k] # n

\* C11 as stated: a file whose document has a block with a name that is not
\* among the names of test_cmds never ends as ok, FAILED or ignored, and none
\* of its commands is spawned.
C11_AsStated ==
    NameOfNoCommand =>
        /\ verdict \notin {"ok", "FAILED", "ignored"}
        /\ \A i \in Stages : spawned[i] = 0

\* C11: when a file is not ignored and test_cmds returns, a block of the
\* document whose name none of the returned commands has ends the job in a
\* fatal error: the file gets no verdict, is not counted as ignored, has no
\* failure recorded and none of its commands is spawned.
C11_UnknownNameIsFatal ==
    NameWithoutCommand =>
        /\ pc = "fatal"
        /\ verdict = "none"
        /\ num_ignored = 0
        /\ failures = <<>>
        /\ \A i \in Stages : spawned[i] = 0

C11_Witness ==
    /\ NameWithoutCommand
    /\ cmd_pairs = <<"compiler">>
    /\ "linker" \in test_names
    /\ pc = "fatal"

\* test and block are those of the command cmd_pairs[stage].
InForce == stage >= 1 /\ pc # "begin"

HasKey(k) == \E i \in 1..Len(block) : block[i][1] = k

\* The value the block gives to the key k where it has it last.
LastOf(k) ==
    LET i == CHOOSE j \in 1..Len(block) :
                 /\ block[j][1] = k
                 /\ \A l \in (j + 1)..Len(block) : block[l][1] # k
    IN  block[i][2]

\* The expectation of test that the key k sets.
Expectation(k) ==
    CASE k = "status" -> test.status
      [] k = "stdin" -> test.stdin
      [] k = "stderr" -> test.stderr
      [] k = "stdout" -> test.stdout
      [] k = "rerun-if-status" -> test.rerun_if_status
      [] k = "rerun-if-stderr" -> test.rerun_if_stderr
      [] k = "rerun-if-stdout" -> test.rerun_if_stdout

\* What the expectation is when the key k is not written.
Documented(k) ==
    CASE k = "status" -> [kind |-> "Success", i |-> 0]
      [] k = "stdin" -> -1
      [] k \in {"stderr", "stdout"} -> <<"...">>
      [] k = "rerun-if-status" -> StNone
      [] k \in {"rerun-if-stderr", "rerun-if-stdout"} -> PtnNone

\* C12: the expectations of a command are the defaults (status Success, stdout
\* and stderr a single '...' line, no stdin, no argument, no environment
\* variable, no rerun-if clause) except for the keys the block of the document
\* under the lower-cased name of the command has; a command without a block is
\* run and passes iff its process ends successfully.
C12_DefaultsUnlessKeyed ==
    InForce =>
        /\ \A k \in {"status", "stdin", "stderr", "stdout", "rerun-if-status",
                     "rerun-if-stderr", "rerun-if-stdout"} :
              Expectation(k) = IF HasKey(k) THEN LastOf(k) ELSE Documented(k)
        /\ ~HasKey("exec-arg") => test.args = <<>>
        /\ ~HasKey("env-var") => test.env = {}
        /\ cmd_pairs[stage] \notin test_names =>
              /\ block = <<>>
              /\ pc \in {"report", "done"} =>
                    /\ spawned[stage] = 1
                    /\ last.stage = stage
                    /\ failure = EmptyFailure <=> success(last.status)

C12_Witness ==
    /\ InForce
    /\ stage = 2
    /\ test_names = {"compiler"}
    /\ block = <<>>
    /\ spawned[2] = 1
    /\ last.stderr = <<"x">>
    /\ pc = "done" /\ verdict = "ok"

\* The process of the run last closed its stdin or exited before the whole of
\* the configured stdin was written.
StdinLeft == last.stage # 0 /\ last.stdin_remaining > 0

\* C13 as stated: a process that leaves bytes of the configured stdin
\* unconsumed makes a failure of the file that carries the number of these
\* bytes and is recorded in the list of failures; it is no fatal error.
C13_AsStated ==
    StdinLeft =>
        /\ pc \in {"report", "done"}
        /\ failure.stdin_remaining = last.stdin_remaining
        /\ pc = "done" => (verdict = "FAILED" /\ failures = <<failure>>)

\* The entries of the list of failures for the path f.
FailuresOf(f) == {i \in 1..Len(failures) : failures[i][1] = f}

\* The path f has one of the three verdicts.
HasVerdict(f) ==
    Len(verdicts[f]) = 1 /\ verdicts[f][1] \in {"ok", "FAILED", "ignored"}

\* The job of the path f ended because a callback panicked: a failure with
\* nothing in it was recorded, and no verdict was written.
EndedByPanic(f) ==
    /\ verdicts[f] = <<>>
    /\ \E c \in {"extract", "run_tests"} : <<f, c>> \in panicked
    /\ \E i \in 1..Len(failures) :
          failures[i] = <<f, EmptyFailure>> /\ FailuresOf(f) = {i}

\* The job of the path f is over.
Outcome(f) ==
    \/ verdicts[f] \in {<<"ok">>, <<"ignored">>} /\ FailuresOf(f) = {}
    \/ /\ verdicts[f] = <<"FAILED">>
       /\ \E i \in 1..Len(failures) :
             failures[i][2] # EmptyFailure /\ FailuresOf(f) = {i}
    \/ EndedByPanic(f)

FilterPanicked == \E f \in Paths : <<f, "filter">> \in panicked

\* The paths test_files returned.
TestFiles == {test_files[i] : i \in 1..Len(test_files)}

\* The panic of a callback for the path f was caught by a worker that has yet
\* to push the failure.
Recording(f) == \E w \in Workers : job[w].file = f /\ job[w].pc = "push"

Overlaps(p) ==
    /\ p # WILDCARD
    /\ starts_with(p, WILDCARD)
    /\ ends_with(p, WILDCARD)
    /\ Len(p) < 2 * Len(WILDCARD)

\* Two consecutive lines of pl are each solely "...".
Consecutive(pl) ==
    \E k \in 1..(Len(pl) - 1) : pl[k] = WILDCARD /\ pl[k + 1] = WILDCARD

\* There is a choice, for each whole-line "..." of pl from index i on, of a
\* number of consecutive lines of sl it absorbs, such that every other line
\* of pl matches its line of sl in order and every line of sl from index j
\* on is accounted for.
RECURSIVE SomeChoice(_, _, _, _)
SomeChoice(pl, sl, i, j) ==
    IF i = Len(pl) THEN j = Len(sl)
    ELSE IF pl[i + 1] = WILDCARD
    THEN \E k \in j..Len(sl) : SomeChoice(pl, sl, i + 1, k)
    ELSE /\ j < Len(sl)
         /\ match_line(pl[i + 1], sl[j + 1]) = "true"
         /\ SomeChoice(pl, sl, i + 1, j + 1)

\* C16: a line that is solely "..." matches zero or more consecutive lines:
\* match_vec succeeds iff there is some choice, for each whole-line "...", of
\* the lines it absorbs such that every other pattern line matches its line
\* in order and every line of the text is accounted for. Stated for the
\* patterns without two consecutive "..." and without overlapping markers.
C16_AsStated ==
    (/\ m_pc = "done"
     /\ ~Consecutive(plines)
     /\ \A k \in 1..Len(plines) : ~Overlaps(plines[k]))
        => (matched = "true" <=> SomeChoice(plines, slines, 0, 0))

NoWildcard(pl) ==
    \A k \in 1..Len(pl) :
        ~starts_with(pl[k], WILDCARD) /\ ~ends_with(pl[k], WILDCARD)

\* C17: for a pattern in which no line starts or ends with "...", match_vec
\* succeeds iff the text, trimmed as a whole and then line by line, is
\* exactly the sequence of the pattern's lines, compared case-sensitively.
C17_NoWildcardIsEquality ==
    (m_pc = "done" /\ NoWildcard(plines))
        => /\ matched \in {"true", "false"}
           /\ matched = "true" <=> slines = plines

C17_Witness ==
    /\ m_pc = "done"
    /\ plines = <<"a", "b">>
    /\ str = "a\n b "
    /\ slines = <<"a", "b">>
    /\ matched = "true"

\* C18: when a whole-line "..." is the last pattern line and every earlier
\* pattern line has matched, match_vec succeeds whatever number of lines of
\* the text remain, zero included; in particular the pattern of the single
\* line "..." matches every text, the empty one included. The one other way
\* such a call ends is the fatal error of a "..." that follows a "...".
C18_TrailingWildcardMatches ==
    (/\ m_pc = "done"
     /\ plines # <<>>
     /\ plines[Len(plines)] = WILDCARD
     /\ pi >= Len(plines) - 1)
        => \/ matched = "true"
           \/ matched = "fatal" /\ Consecutive(plines)

C18_Witness ==
    /\ m_pc = "done"
    /\ plines = <<"a", WILDCARD>>
    /\ str = "a"
    /\ pi = 1
    /\ si = 1
    /\ matched = "true"

\* What a pattern line other than the bare "..." matches, for a line whose
\* markers do not overlap.
LineMatches(p, t) ==
    LET n == Len(WILDCARD)
    IN  IF starts_with(p, WILDCARD) /\ ends_with(p, WILDCARD)
        THEN \E a \in 0..Len(t), b \in 0..Len(t) :
                 a <= b /\ SubSeq(t, a + 1, b) = SubSeq(p, n + 1, Len(p) - n)
        ELSE IF starts_with(p, WILDCARD)
        THEN \E a \in 0..Len(t) : SubSeq(t, a + 1, Len(t)) = SubSeq(p, n + 1, Len(p))
        ELSE IF ends_with(p, WILDCARD)
        THEN \E b \in 0..Len(t) : SubSeq(t, 1, b) = SubSeq(p, 1, Len(p) - n)
        ELSE t = p

\* C19: a pattern line other than the bare "..." matches the lines that end
\* with, start with, contain or equal its text, according to where its "..."
\* are, and consumes exactly one line: a pattern without whole-line "..."
\* has its match decided, and matches exactly the texts of as many lines,
\* each matched by its pattern line.
C19_AsStated ==
    (m_pc = "done" /\ \A k \in 1..Len(plines) : plines[k] # WILDCARD)
        => /\ matched \in {"true", "false"}
           /\ (\A k \in 1..Len(plines) : ~Overlaps(plines[k]))
                  => (matched = "true"
                        <=> /\ Len(slines) = Len(plines)
                            /\ \A k \in 1..Len(plines) :
                                   LineMatches(plines[k], slines[k]))

\* C20: whenever a pattern has two consecutive lines that are each solely
\* "...", matching it against any text ends in a fatal error instead of
\* returning a match result.
C20_AsStated ==
    (m_pc = "done" /\ Consecutive(plines)) => matched = "fatal"

\* ------------------------------------------------------------------------
\* parse_tests and key_multiline_val
\* ------------------------------------------------------------------------
\* The lines of the text, and whether line k (from 1) is blank.
TextOf == lines(test_text)

Blank(line) == trim(line) = ""

\* Line j is the line of a command: at the outer level, `name:` without a
\* value, and no comment; and line k lies in its block: every line between
\* them is blank or indented.
HeaderAt(ls, j) ==
    /\ ~Blank(ls[j])
    /\ indent_level(ls[j]) = 0
    /\ ~IsCommentAt(comment_prefix, ls[j], 0)
    /\ key_val(ls[j], 0).res = "ok"
    /\ key_val(ls[j], 0).val = ""
    /\ key_val(ls[j], 0).key # "ignore-if"

InBlockOf(ls, j, k) ==
    /\ j < k
    /\ HeaderAt(ls, j)
    /\ \A m \in (j + 1)..(k - 1) : Blank(ls[m]) \/ indent_level(ls[m]) > 0

\* Line k is `key:` with no value: nothing after the colon, and the first
\* line after it that is not blank, if any, is not indented more.
EmptyKeyAt(ls, k, key) ==
    /\ ~Blank(ls[k])
    /\ key_val(ls[k], indent_level(ls[k])).res = "ok"
    /\ key_val(ls[k], indent_level(ls[k])).key = key
    /\ key_val(ls[k], indent_level(ls[k])).val = ""
    /\ \A m \in (k + 1)..Len(ls) :
          (\A n \in (k + 1)..(m - 1) : Blank(ls[n]))
              => Blank(ls[m]) \/ indent_level(ls[m]) <= indent_level(ls[k])
    /\ \A m \in (k + 1)..Len(ls) :
          Blank(ls[m]) \/ key_val(ls[m], indent_level(ls[m])).key # key

\* C21: a `stdout:` (or `stderr:`) key written with no value yields the empty
\* pattern, not the default "...", and the empty pattern matches a captured
\* text iff the text is empty after trimming: the expectation fails on any
\* output that is not whitespace.
C21_EmptyKeyIsEmptyPattern ==
    (parse_pc = "parse_tests" /\ tests.res = "ok")
        => \A j, k \in 1..Len(TextOf) :
              LET name == to_lowercase(key_val(TextOf[j], 0).key)
              IN  /\ (InBlockOf(TextOf, j, k) /\ EmptyKeyAt(TextOf, k, "stdout"))
                        => /\ name \in DOMAIN tests.tests
                           /\ tests.tests[name].stdout = <<>>
                           /\ \A t \in Strs :
                                 match_vec(tests.tests[name].stdout, t).res = "true"
                                     <=> trim(t) = ""
                  /\ (InBlockOf(TextOf, j, k) /\ EmptyKeyAt(TextOf, k, "stderr"))
                        => /\ name \in DOMAIN tests.tests
                           /\ tests.tests[name].stderr = <<>>

C21_Witness ==
    /\ parse_pc = "parse_tests"
    /\ test_text = "A:\n  stdout:"
    /\ tests.res = "ok"
    /\ DOMAIN tests.tests = {"a"}
    /\ tests.tests["a"].stdout = <<>>
    /\ tests.tests["a"].stderr = <<WILDCARD>>
    /\ match_vec(tests.tests["a"].stdout, " \n").res = "true"
    /\ match_vec(tests.tests["a"].stdout, "b").res = "false"

\* The indentation of the key line key_multiline_val is called on.
KeyIndent == indent_level(TextOf[1])

\* The index (from 0) of the first line after the key line that is not blank
\* and is indented at most as the key line, the number of lines if none.
EndOffset ==
    LET ends == {k \in 2..Len(TextOf) :
                    ~Blank(TextOf[k]) /\ indent_level(TextOf[k]) <= KeyIndent}
    IN  IF ends = {} THEN Len(TextOf)
        ELSE (CHOOSE k \in ends : \A m \in ends : k <= m) - 1

\* Entry e of the value before the blank entries are removed is empty:
\* entry 0 is the first-line value, entry e the line of index e.
EmptyEntry(e) ==
    IF e = 0 THEN key_val(TextOf[1], KeyIndent).val = "" ELSE Blank(TextOf[e + 1])

\* The entry x is line e + 1 from some point of its indentation on.
EntryOfLine(x, e) ==
    \E a \in 0..indent_level(TextOf[e + 1]) :
        x = SubSeq(TextOf[e + 1], a + 1, Len(TextOf[e + 1]))

\* The least indentation of the continuation lines that are not blank.
CommonIndent ==
    LET ks == {k \in 2..EndOffset : ~Blank(TextOf[k])}
    IN  IF ks = {} THEN 0
        ELSE indent_level(TextOf[CHOOSE k \in ks :
                 \A m \in ks : indent_level(TextOf[k]) <= indent_level(TextOf[m])])

\* The entry x is line e + 1 without the common indentation.
EntryWithoutCommon(x, e) ==
    x = SubSeq(TextOf[e + 1], CommonIndent + 1, Len(TextOf[e + 1]))

\* The value v is the entries lo..hi: the first-line value for entry 0, the
\* empty string for a blank line, and what Entry allows for another line.
ValueIs(v, lo, hi, Entry(_, _)) ==
    /\ Len(v) = hi - lo + 1
    /\ \A e \in lo..hi :
          IF e = 0 THEN v[e - lo + 1] = key_val(TextOf[1], KeyIndent).val
          ELSE IF Blank(TextOf[e + 1]) THEN v[e - lo + 1] = ""
          ELSE Entry(v[e - lo + 1], e)

\* The value made of the entries 0..EndOffset - 1 without the empty entries
\* of its two ends.
StrippedValueIs(v, Entry(_, _)) ==
    LET full == {e \in 0..(EndOffset - 1) : ~EmptyEntry(e)}
    IN  IF full = {} THEN v = <<>>
        ELSE ValueIs(v, CHOOSE e \in full : \A f \in full : e <= f,
                        CHOOSE e \in full : \A f \in full : e >= f, Entry)

\* C22: key_multiline_val on a key line at indentation I returns the key, the
\* end offset of the first later line that is not blank and is indented at
\* most I (the number of lines if none), and the first-line value followed by
\* the continuation lines in order, each from some point of its indentation
\* on with its trailing whitespace, blank lines as empty strings, and the
\* empty entries removed from the start and the end only. (Without a comment
\* prefix.)
C22_AsStated ==
    (/\ parse_pc = "key_multiline_val"
     /\ comment_prefix = <<>>
     /\ key_val(TextOf[1], KeyIndent).res = "ok")
        => /\ kmv.res = "ok"
           /\ kmv.key = key_val(TextOf[1], KeyIndent).key
           /\ kmv.end = EndOffset
           /\ StrippedValueIs(kmv.val, EntryOfLine)

\* C23: a multi-line value is stripped of its common indentation only: each
\* continuation line that is not blank loses exactly the whitespace all of
\* them share and keeps deeper indentation and trailing whitespace, whatever
\* the order of shallower and deeper lines and whether or not a blank line
\* follows the key. (Without a comment prefix.)
C23_AsStated ==
    (/\ parse_pc = "key_multiline_val"
     /\ comment_prefix = <<>>
     /\ key_val(TextOf[1], KeyIndent).res = "ok")
        => /\ kmv.res = "ok"
           /\ StrippedValueIs(kmv.val, EntryWithoutCommon)

\* The line begins with the comment prefix once its indentation is ignored.
CommentLine(line) ==
    comment_prefix # <<>> /\ starts_with(trim_start(line), comment_prefix[1])

NotCommentLine(line) == ~CommentLine(line)

\* C24: with a comment prefix, every line that begins with the prefix once
\* its indentation is ignored is a comment wherever it occurs: parsing the
\* text gives what parsing the text without those lines gives.
C24_AsStated ==
    (parse_pc = "parse_tests" /\ comment_prefix # <<>>)
        => tests = parse_from(comment_prefix, SelectSeq(TextOf, NotCommentLine),
                              0, <<>>, <<>>)

\* The lower-cased name of the command of line j.
NameAt(ls, j) == to_lowercase(key_val(ls[j], 0).key)

\* Two lines of commands have names that are equal after lower-casing.
DuplicateNames(ls) ==
    \E j, k \in 1..Len(ls) :
        j < k /\ HeaderAt(ls, j) /\ HeaderAt(ls, k) /\ NameAt(ls, j) = NameAt(ls, k)

KeyLineOf(ls, j, k) ==
    /\ InBlockOf(ls, j, k)
    /\ ~Blank(ls[k])
    /\ ~CommentLine(ls[k])
    /\ indent_level(ls[k]) > 0
    /\ ~\E q \in (j + 1)..(k - 1) :
          /\ ~Blank(ls[q])
          /\ indent_level(ls[q]) < indent_level(ls[k])
          /\ \A m \in (q + 1)..(k - 1) :
                Blank(ls[m]) \/ indent_level(ls[m]) > indent_level(ls[q])

KeyAt(ls, k) == key_val(ls[k], indent_level(ls[k]))

\* The line has no ':' after its key (and the whitespace that follows it).
NoTerminator(line) ==
    LET rest == trim_start(SubSeq(line, indent_level(line) + 1, Len(line)))
        after == trim_start(SubSeq(rest, KeyLen(rest) + 1, Len(rest)))
    IN  after = "" \/ SubSeq(after, 1, 1) # ":"

\* The text has one of the four errors: a line of a command with a value
\* after its colon; a line of a command or a key line without ':' after the
\* key; a status or rerun-if-status that is neither success, error, signal
\* in any letter case nor a signed 32-bit integer; a key outside the
\* recognized set.
HeaderWithValue(ls) ==
    \E k \in 1..Len(ls) :
        /\ ~Blank(ls[k]) /\ indent_level(ls[k]) = 0 /\ ~CommentLine(ls[k])
        /\ ~NoTerminator(ls[k])
        /\ KeyAt(ls, k).key # "ignore-if"
        /\ KeyAt(ls, k).val # ""

LineWithoutTerminator(ls) ==
    \/ \E k \in 1..Len(ls) :
          /\ ~Blank(ls[k]) /\ indent_level(ls[k]) = 0 /\ ~CommentLine(ls[k])
          /\ NoTerminator(ls[k])
    \/ \E j, k \in 1..Len(ls) : KeyLineOf(ls, j, k) /\ NoTerminator(ls[k])

UnknownStatus(ls) ==
    \E j, k \in 1..Len(ls) :
        /\ KeyLineOf(ls, j, k)
        /\ ~NoTerminator(ls[k])
        /\ KeyAt(ls, k).key \in {"status", "rerun-if-status"}
        /\ KeyAt(ls, k).val # ""
        /\ to_lowercase(KeyAt(ls, k).val) \notin {"success", "error", "signal"}
        /\ ~parse_i32(KeyAt(ls, k).val).ok

UnknownKey(ls) ==
    \E j, k \in 1..Len(ls) :
        /\ KeyLineOf(ls, j, k)
        /\ ~NoTerminator(ls[k])
        /\ KeyAt(ls, k).key \notin
              {"status", "rerun-if-status", "stdout", "stderr", "rerun-if-stdout",
               "rerun-if-stderr", "stdin", "env-var", "exec-arg"}

Verdicts == {"ok", "FAILED", "ignored"}

\* C27: with more than one worker thread the name of a file and its verdict
\* are written during one hold of the lock of stderr: in every interleaving
\* each name on stderr is followed at once by the verdict of the same file,
\* or is the last piece written and its writer still holds the lock; and each
\* verdict follows the name of its file.
C27_ResultLineIsAtomic ==
    test_threads > 1
        => \A i \in 1..Len(console) :
              IF console[i][2] = "name"
              THEN IF i < Len(console)
                   THEN /\ console[i + 1][1] = console[i][1]
                        /\ console[i + 1][2] \in Verdicts
                   ELSE \E w \in Workers :
                           /\ stderr_lock = w
                           /\ job[w].file = console[i][1]
                           /\ job[w].pc = "verdict"
              ELSE /\ i > 1
                   /\ console[i - 1] = <<console[i][1], "name">>

\* A worker waits for the lock while another one is between the name and the
\* verdict of its file, after a first file was written.
C27_Witness ==
    /\ test_threads = 2
    /\ stderr_lock = 1
    /\ job[1].pc = "verdict"
    /\ job[2].pc = "lock"
    /\ console = << <<job[1].file, "name">> >>

\* The entries of the failure list for the path f.
EntriesOf(f) == {i \in 1..Len(failures) : failures[i][1] = f}

\* The path f failed: it was written as FAILED, or a callback panicked for it
\* in its job.
FileFailed(f) ==
    \/ verdicts[f] = <<"FAILED">>
    \/ \E e \in panicked : e[1] = f /\ e[2] \in {"extract", "run_tests"}

\* test_file was called and has returned.
TestFileReturned == pool_pc \in {"summary", "exit"} /\ ~FilterPanicked

C28_Counts ==
    TestFileReturned
        => /\ \A f \in Paths :
                 Cardinality(EntriesOf(f)) = IF FileFailed(f) THEN 1 ELSE 0
           /\ num_ignored = Cardinality({f \in Paths : verdicts[f] = <<"ignored">>})

C28_AppendOnly ==
    /\ Len(failures') >= Len(failures)
    /\ SubSeq(failures', 1, Len(failures)) = failures
    /\ num_ignored' >= num_ignored

\* C28: in every interleaving of the workers, when test_file returns the
\* failure list holds exactly one entry for each file that failed and none
\* for any other file, and the ignored count is the number of files that
\* ended ignored; an entry once appended is never removed or changed.
C28_NoUpdateIsLost == [](C28_Counts) /\ [][C28_AppendOnly]_pool_vars

C28_Witness ==
    /\ pool_pc = "exit"
    /\ test_threads = 2
    /\ Len(test_files) = 2
    /\ Len(failures) = 2
    /\ \E f \in Paths : verdicts[f] = <<"FAILED">>
    /\ \E f \in Paths : <<f, "run_tests">> \in panicked

\* run_cmd is past its start and has not ended.
Pumping == pump_pc \in {"loop", "wait"}

\* Every byte of the configured stdin has been written.
PayloadWritten == stdin_len >= 0 /\ stdin_off = stdin_len

\* C29, as the specification states it: for every configured stdin, the
\* empty one included, stdin is closed once all its bytes are written, it is
\* closed before the first poll when no stdin is configured, and a child that
\* reads its stdin to end of file eventually sees end of file.  The code asks
\* poll for no event when nothing is left to write and closes stdin only
\* after a write, so the stdin of an empty payload stays open.
C29_AsStated ==
    /\ [](Pumping /\ PayloadWritten => statuses[POLL_STDIN] # 0)
    /\ [](Pumping /\ stdin_len = -1 => statuses[POLL_STDIN] = STATUS_EOF)
    /\ [](pump_pc # "none" /\ child.reads = "eof" => <>child.saw_eof)

\* The child has closed its stdout and its stderr and has exited.
ChildGone == child.exited /\ ~child.err_open /\ ~child.out_open

\* run_cmd returned or ended in fatal.
PumpDone == pump_pc \in {"returned", "fatal"}

\* No step of run_cmd changes what the child does or has open.
NoKill == PumpSteps => child' = child

\* The warning changes nothing of the pump but the count of warnings.
WarningIsInert ==
    Warn => UNCHANGED <<stdin_off, statuses, pump_pc, cap_stdout, closes, child,
                        pipe, out_buf, out_stream>>

\* The child keeps its stdout open or never exits.
ChildStays == child.ends \in {"keeps_stdout", "never_exits"}

\* C30, as the specification states it: run_cmd never ends the child, the
\* warning changes no state of the pump, run_cmd completes once the child has
\* closed its streams and exited, and it never completes (it neither returns
\* nor ends in fatal) when the child keeps a stream open or never exits.  The
\* last part fails: output that is not UTF-8, or a child that closed all its
\* streams without reading its stdin, ends run_cmd in fatal while the child
\* goes on running.
C30_AsStated ==
    /\ [][NoKill /\ WarningIsInert]_pumpOnly
    /\ [](ChildGone => <>PumpDone)
    /\ [](pump_pc # "none" /\ ChildStays => ~PumpDone)

\* C30, amended: run_cmd never ends the child, the warning changes no state
\* of the pump, run_cmd completes once the child has closed its streams and
\* exited, and it never returns when the child keeps a stream open or never
\* exits: it can then only end in fatal.
C30_ReturnsOnlyAfterChild ==
    /\ [][NoKill /\ WarningIsInert]_pumpOnly
    /\ [](ChildGone => <>PumpDone)
    /\ [](pump_pc # "none" /\ ChildStays => pump_pc # "returned")
    /\ [](pump_pc = "returned" => ChildGone)

\* run_cmd returned what a child that read the whole payload and exited
\* wrote, after a warning was printed.
C30_Witness ==
    /\ pump_pc = "returned" /\ ChildGone
    /\ warnings > 0 /\ stdin_len > 0 /\ child.saw_eof
    /\ cap_stdout = <<"a">>

\* ------------------------------------------------------------------------
\* run_cmd: the three files
\* ------------------------------------------------------------------------
\* C31: run_cmd waits for the exit status of the child, and returns, only
\* with stdin, stderr and stdout all at EOF and closed; with all three closed
\* and one of them in the error state the next iteration ends in fatal.
C31_ReturnsOnlyAtEof ==
    /\ [](pump_pc \in {"wait", "returned"}
            => \A i \in 1..3 : statuses[i] = STATUS_EOF /\ closes[i] = 1)
    /\ [][(/\ pump_pc = "loop"
           /\ \A i \in 1..3 : statuses[i] # 0
           /\ \E i \in 1..3 : statuses[i] = STATUS_ERR
           /\ pump_pc' # pump_pc) => pump_pc' = "fatal"]_pumpOnly

\* run_cmd returned for a block without stdin, and run_cmd ended in fatal
\* cannot be the same state: the witness is the return.
C31_Witness ==
    /\ pump_pc = "returned"
    /\ stdin_len = -1
    /\ statuses = <<STATUS_EOF, STATUS_EOF, STATUS_EOF>>
    /\ child.exited

WholeStream == cap_stdout \o out_buf \o out_stream

\* run_cmd ended in the fatal error of a chunk that is not UTF-8: the only
\* fatal error that leaves stdout open.
Utf8Fatal == pump_pc = "fatal" /\ statuses[POLL_STDOUT] = 0

\* C36, as the specification states it: when the whole stream of stdout is
\* valid UTF-8, run_cmd returns it in full however the reads split it, and
\* the fatal error of the conversion does not occur.  The code converts each
\* chunk on its own, so a character of two bytes that two reads split ends
\* run_cmd in fatal.
C36_AsStated ==
    (pump_pc # "none" /\ from_utf8_ok(WholeStream))
        => /\ ~Utf8Fatal
           /\ pump_pc = "returned" => cap_stdout = WholeStream

\* ------------------------------------------------------------------------
\* run_tests: one process at a time
\* ------------------------------------------------------------------------
\* The process of the run before has exited and was reaped, and its three
\* streams were closed.
PreviousRunOver ==
    /\ pump_pc = "returned"
    /\ child.exited
    /\ \A i \in 1..3 : statuses[i] = STATUS_EOF /\ closes[i] = 1

\* C32: a process is spawned only when the process of the run before has
\* had its three streams closed and was reaped, so at most one process of a
\* file is alive; the index of the command that is run never decreases, and
\* a spawn is a run of the current command or of the next.
C32_OneProcessAtATime ==
    /\ [][spawned' # spawned => PreviousRunOver]_runs_vars
    /\ [][stage' >= stage]_runs_vars
    /\ [][\A j \in Stages :
            spawned'[j] # spawned[j]
               => /\ spawned'[j] = spawned[j] + 1
                  /\ j = stage'
                  /\ j \in {stage, stage + 1}]_runs_vars
    /\ [](\A j \in Stages : j > stage => spawned[j] = 0)

\* The first command was run twice and the second command once, and the
\* last of the three processes is over.
C32_Witness ==
    /\ pc = "loop" /\ pump_pc = "returned"
    /\ stage = 2
    /\ spawned[1] = 2 /\ spawned[2] = 1
    /\ child.exited

\* ------------------------------------------------------------------------
\* run_tests: the verdict of a file
\* ------------------------------------------------------------------------
\* The run out of the command with the block t passed the four checks: the
\* two patterns were built and status, stdin, stderr and stdout are as
\* expected.
PassedAll(t, out) ==
    FMBuildOk(t.stderr) /\ FMBuildOk(t.stdout) /\ AllChecksPass(t, out)

\* C34: in a file that reached run_tests and whose callbacks did not panic,
\* while commands are still run every run that was not followed by a rerun
\* passed the four checks and nothing is recorded; a run that is not followed
\* by a rerun leaves the TestFailure empty iff it passed the four checks; and
\* the file is reported ok iff the TestFailure is empty, FAILED and pushed to
\* the failures iff it is not, never both.
C34_VerdictFollowsChecks ==
    /\ [](pc \in {"begin", "loop"} => failure = EmptyFailure /\ verdict = "none")
    /\ [][(pc = "loop" /\ pc' \in {"begin", "report"})
            => (PassedAll(test, last') <=> failure' = EmptyFailure)]_vars
    /\ [][(pc = "loop" /\ pc' = "begin") => PassedAll(test, last')]_vars
    /\ [](pc = "done"
            => /\ verdict \in {"ok", "FAILED"}
               /\ verdict = "ok" <=> failure = EmptyFailure
               /\ failures = IF verdict = "FAILED" THEN <<failure>> ELSE <<>>)

\* The first command passed and the second failed its status check alone:
\* the file is reported FAILED with one failure.
C34_Witness ==
    /\ pc = "done" /\ verdict = "FAILED"
    /\ last.stage = 2
    /\ FMBuildOk(test.stderr) /\ FMBuildOk(test.stdout)
    /\ ~PassStatus(test.status, last.status)
    /\ OutputMatches
    /\ failures = <<failure>>
    /\ failure # EmptyFailure

\* ------------------------------------------------------------------------
\* parse_tests: where the block of a command ends
\* ------------------------------------------------------------------------
\* The line is the line of a command, at any indentation: `name:` without a
\* value, no comment and not ignore-if.
CommandLine(line) ==
    /\ ~Blank(line)
    /\ ~is_comment(comment_prefix, line, indent_level(line))
    /\ key_val(line, indent_level(line)).res = "ok"
    /\ key_val(line, indent_level(line)).val = ""
    /\ key_val(line, indent_level(line)).key # "ignore-if"

\* The index (from 1) of the first line after line 1 that is not blank and
\* is indented at most as line 1; one more than the number of lines if none.
FirstOuterLine ==
    LET ends == {k \in 2..Len(TextOf) :
                    /\ ~Blank(TextOf[k])
                    /\ indent_level(TextOf[k]) <= indent_level(TextOf[1])}
    IN  IF ends = {} THEN Len(TextOf) + 1
        ELSE CHOOSE k \in ends : \A m \in ends : k <= m

\* C33, as the specification states it, for the command of the first line,
\* at indentation L: its block is made of the lines before the first line
\* that is not blank and is indented at most L, and that line is parsed at
\* the outer level.  The code ends the block only at a line indented exactly
\* L: a line indented less is taken for a key of the block.
C33_AsStated ==
    (parse_pc = "parse_tests" /\ Len(TextOf) >= 1 /\ CommandLine(TextOf[1]))
        => LET L == indent_level(TextOf[1])
               k == FirstOuterLine
               name == to_lowercase(key_val(TextOf[1], L).key)
               whole == parse_block(comment_prefix, TextOf, 1, L, DefaultTestCmd)
               cut == parse_block(comment_prefix, SubSeq(TextOf, 1, k - 1), 1, L,
                                  DefaultTestCmd)
           IN  /\ whole.res = cut.res
               /\ whole.t = cut.t
               /\ cut.res = "ok"
                     => /\ whole.end = k - 1
                        /\ tests = parse_from(comment_prefix, TextOf, k - 1, <<>>,
                                              [n \in {name} |-> cut.t])

\* C38, as the specification states it: key_multiline_val and parse_tests
\* return or end in one of the fatal errors of the parser, they never slice a
\* line beyond its length.  key_multiline_val slices every continuation line
\* at the indentation of the line after the key, also one that is shorter.
C38_AsStated == kmv.res # "panic" /\ tests.res # "panic"

\* ------------------------------------------------------------------------
\* match_line: the slices of a pattern line
\* ------------------------------------------------------------------------
\* C39, as the specification states it: every call of match_line that
\* match_vec makes returns a boolean, none takes a slice whose start lies
\* after its end, also for a pattern line of four or five dots.  For such a
\* line the slice is p[3..p.len() - 3], with p.len() - 3 less than 3.
C39_AsStated ==
    m_pc = "done" => matched \in {"true", "false", "fatal"}

\* ------------------------------------------------------------------------
\* run: the counts of the summary
\* ------------------------------------------------------------------------
\* The scheduled files that were run and ended ok.
EndedOk == {f \in scheduled : verdicts[f] = <<"ok">>}

\* C37, as the specification states it: the passed count of the summary is
\* the number of scheduled files that were run and ended ok, and passed,
\* failed and ignored add up to the number of scheduled files.  The code
\* prints the number of test files less the number of failures, which counts
\* every ignored file as passed as well.
C37_AsStated ==
    summary # NoSummary
        => /\ summary.passed = Cardinality(EndedOk)
           /\ summary.passed + summary.failed + summary.ignored
                 = Cardinality(scheduled)

\* ------------------------------------------------------------------------
\* The two locks the workers share
\* ------------------------------------------------------------------------
\* The worker w takes the lock of stderr in this step.
TakesStderr(w) == stderr_lock' = w /\ stderr_lock # w

\* The worker w holds the mutex of failures alone, after a panic it caught,
\* or inside the block in which it holds the lock of stderr.
MutexAloneOrInside(w) ==
    \/ job[w].pc = "push" /\ stderr_lock # w
    \/ job[w].pc = "verdict" /\ job[w].out = "FAILED" /\ stderr_lock = w

\* The one thing the holder of the lock of stderr may have to wait for: the
\* mutex of failures, held by a worker that holds nothing else and pushes.
WaitsForPush(w) ==
    /\ WantsMutex(w)
    /\ \E v \in Workers \ {w} : failures_lock = v /\ job[v].pc = "push"

============================================================================
